---- MODULE Spec2Model ----
(***************************************************************************)
(* A model of the corrosion Game Boy emulator core: the memory-mapping     *)
(* fabric (hardware/ram.rs and hardware/ram/*.rs), the register file       *)
(* (hardware/register_bank.rs), the CPU aggregate (hardware/cpu.rs), the   *)
(* change set (instructions/changeset*.rs), the operand model              *)
(* (instructions/base/*.rs), the load instructions and the fetch/decode    *)
(* step (decoder.rs).                                                      *)
(*                                                                         *)
(* Bytes are naturals below 256 and double bytes naturals below 65536;     *)
(* every wrapping operation of the source is written with an explicit      *)
(* modulus.  A RAM chip (Box<[u8; S]>, zero-initialised) is a function     *)
(* from the sub-addresses holding a non-zero byte to that byte; every      *)
(* other sub-address below S holds 0.                                      *)
(***************************************************************************)
EXTENDS Integers, Sequences, FiniteSets, TLC

VARIABLES
    register_bank,  \* Cpu.register_bank : [u8; 8]
    mapped_ram,     \* Cpu.mapped_ram    : the chips owned by the fabric
    pc,             \* Cpu.pc
    sp,             \* Cpu.sp
    ime,            \* Cpu.ime
    pre,            \* the Cpu aggregate as it was before the last operation
    op,             \* the last operation: its name, inputs and result
    prev,           \* the instruction executed before the last one, and the aggregate before it
    steps,          \* number of operations performed so far
    io_registers    \* the IoRegistersMemoryMapping of the I/O window, with its counters

vars == <<register_bank, mapped_ram, pc, sp, ime, pre, op, prev, steps, io_registers>>

(***************************************************************************)
(* Bounds of the model.                                                    *)
(***************************************************************************)
MaxSteps == 2

(***************************************************************************)
(* Program constants.                                                      *)
(***************************************************************************)
BOOSTRAP_RAM_START == 0
VIDEO_RAM_START == 32768
WORKING_RAM_START == 49152
ECHO_RAM_START == 57344
OAM_START == 65024
IO_REGISTERS_MAPPING_START == 65280

BOOTSTRAP_RAM_SIZE == 256
WORKING_RAM_SIZE == ECHO_RAM_START - WORKING_RAM_START
VIDEO_RAM_SIZE == 8 * 1024
IO_REGISTERS_MAPPING_SIZE == 128
OAM_SIZE == 160

SINGLE_REGISTER_BANK_SIZE == 8
FLAG_REGISTER == 5
PC_START == 0
SP_START == 0

(***************************************************************************)
(* Results.  Ok(v) and Err(e) are the two values of a Rust Result; Panic   *)
(* is the outcome of a panic!/unwrap failure, which unwinds out of the     *)
(* call instead of returning a value.                                      *)
(***************************************************************************)
NoError == [kind |-> "None", address |-> 0]
Ok(v) == [ok |-> TRUE, panic |-> FALSE, value |-> v, error |-> NoError]
Err(e) == [ok |-> FALSE, panic |-> FALSE, value |-> 0, error |-> e]
Panic == [ok |-> FALSE, panic |-> TRUE, value |-> 0, error |-> NoError]

\* let value = ...; body: the value is computed once and named in the body.
Bind(value, Body(_)) == Body(value)

InvalidAddress(a) == [kind |-> "InvalidAddress", address |-> a]
UnmappedRegion(a) == [kind |-> "UnmappedRegion", address |-> a]
WriteOnRom(a) == [kind |-> "WriteOnRom", address |-> a]

\* A variant of adjust_for_offset that forgets to add the offset.
adjust_for_offset_NoAdd(e, offset) == e

\* RamError::adjust_for_offset: the carried address plus the region offset.
adjust_for_offset(e, offset) ==
    [kind |-> e.kind, address |-> (e.address + offset) % 65536]

(***************************************************************************)
(* Chips.                                                                  *)
(***************************************************************************)
\* The byte a zero-initialised chip holds at sub-address a.
ChipByte(memory, a) == IF a \in DOMAIN memory THEN memory[a] ELSE 0

\* *ptr = value on the boxed array.
ChipStore(memory, a, v) ==
    LET dom == IF v = 0 THEN (DOMAIN memory) \ {a} ELSE (DOMAIN memory) \cup {a}
    IN  [x \in dom |-> IF x = a THEN v ELSE memory[x]]

\* impl Rom for RomChip<S>
RomChip_read_byte(ref_memory, size, address) ==
    IF address < size THEN Ok(ref_memory[address])
    ELSE Err(InvalidAddress(address))

\* A variant of RamChip_read_byte that rejects the last byte of the chip.
RamChip_read_byte_Short(memory, size, address) ==
    IF address + 1 < size THEN Ok(ChipByte(memory, address))
    ELSE Err(InvalidAddress(address))

\* impl Rom for RamChip<S>
RamChip_read_byte(memory, size, address) ==
    IF address < size THEN Ok(ChipByte(memory, address))
    ELSE Err(InvalidAddress(address))

\* A variant of RamChip_write_byte that checks the address but stores nothing.
RamChip_write_byte_NoStore(memory, size, address, value) ==
    IF address < size
    THEN [res |-> Ok(0), memory |-> memory]
    ELSE [res |-> Err(InvalidAddress(address)), memory |-> memory]

\* impl Ram for RamChip<S>: the result and the chip after the call.
RamChip_write_byte(memory, size, address, value) ==
    IF address < size
    THEN [res |-> Ok(0), memory |-> ChipStore(memory, address, value)]
    ELSE [res |-> Err(InvalidAddress(address)), memory |-> memory]

(***************************************************************************)
(* The I/O registers owned by MappedRam (hardware/ram.rs).                 *)
(***************************************************************************)
\* MappedIoRegisters::resolve_address
resolve_address(address) ==
    IF address = 64 THEN Ok("LcdControl")
    ELSE IF address < 128 THEN Err(UnmappedRegion(address))
    ELSE Err(InvalidAddress(address))

\* impl Rom for MappedIoRegisters
MappedIoRegisters_read_byte(io, address) ==
    Bind(resolve_address(address), LAMBDA r :
        IF r.ok THEN Ok(io.lcd_control) ELSE Err(r.error))

\* impl Ram for MappedIoRegisters
MappedIoRegisters_write_byte(io, address, value) ==
    Bind(resolve_address(address), LAMBDA r :
        IF r.ok THEN [res |-> Ok(0), io |-> [io EXCEPT !.lcd_control = value]]
        ELSE [res |-> Err(r.error), io |-> io])

(***************************************************************************)
(* The top-level fabric, MappedRam (hardware/ram.rs).                      *)
(***************************************************************************)
RAM_MAPPINGS ==
    << [region |-> "Bootstrap", offset |-> BOOSTRAP_RAM_START, size |-> BOOTSTRAP_RAM_SIZE],
       [region |-> "WorkingRam", offset |-> WORKING_RAM_START, size |-> WORKING_RAM_SIZE],
       [region |-> "VideoRam", offset |-> VIDEO_RAM_START, size |-> VIDEO_RAM_SIZE],
       [region |-> "IoRegisters", offset |-> IO_REGISTERS_MAPPING_START, size |-> IO_REGISTERS_MAPPING_SIZE],
       [region |-> "Oam", offset |-> OAM_START, size |-> OAM_SIZE] >>

\* A variant of mapped_here whose upper bound is inclusive.
mapped_here_Inclusive(mapping, address) ==
    address >= mapping.offset /\ address - mapping.offset <= mapping.size

\* A variant of mapped_here that forgets the size of the entry.
mapped_here_NoSize(mapping, address) ==
    address >= mapping.offset

\* RamMapping::mapped_here
mapped_here(mapping, address) ==
    address >= mapping.offset /\ address - mapping.offset < mapping.size

\* The index of the first entry of a table that maps the address, 0 if none
\* (Iterator::find over the entries in table order).
FirstMatch(table, address) ==
    LET hits == {i \in 1..Len(table) : mapped_here(table[i], address)}
    IN  IF hits = {} THEN 0 ELSE CHOOSE i \in hits : \A j \in hits : i <= j

\* MappedRam::mapping_for_address
mapping_for_address(address) == FirstMatch(RAM_MAPPINGS, address)

\* MappedRam::get_mapped_ram followed by the chip's read_byte.
get_mapped_ram(ram, region, region_address) ==
    CASE region = "Bootstrap" ->
            RomChip_read_byte(ram.boostrap_ram, BOOTSTRAP_RAM_SIZE, region_address)
      [] region = "WorkingRam" ->
            RamChip_read_byte(ram.working_ram, WORKING_RAM_SIZE, region_address)
      [] region = "VideoRam" ->
            RamChip_read_byte(ram.video_ram, VIDEO_RAM_SIZE, region_address)
      [] region = "IoRegisters" ->
            MappedIoRegisters_read_byte(ram.mapped_io_registers, region_address)
      [] region = "Oam" ->
            RamChip_read_byte(ram.oam, OAM_SIZE, region_address)

\* impl Rom for MappedRam
MappedRam_read_byte(ram, address) ==
    Bind(mapping_for_address(address), LAMBDA i :
        IF i = 0 THEN Err(UnmappedRegion(address))
        ELSE Bind(RAM_MAPPINGS[i], LAMBDA ram_mapping :
             Bind(get_mapped_ram(ram, ram_mapping.region, address - ram_mapping.offset),
                  LAMBDA r :
                     IF r.ok THEN r
                     ELSE Err(adjust_for_offset(r.error, ram_mapping.offset)))))

\* MappedRam::get_mapped_ram_mut followed by the chip's write_byte: the
\* chip's result and the fabric after the call.  The Bootstrap arm panics.
get_mapped_ram_mut(ram, region, region_address, value) ==
    CASE region = "Bootstrap" -> [res |-> Panic, ram |-> ram]
      [] region = "WorkingRam" ->
            Bind(RamChip_write_byte(ram.working_ram, WORKING_RAM_SIZE, region_address, value),
                 LAMBDA w : [res |-> w.res, ram |-> [ram EXCEPT !.working_ram = w.memory]])
      [] region = "VideoRam" ->
            Bind(RamChip_write_byte(ram.video_ram, VIDEO_RAM_SIZE, region_address, value),
                 LAMBDA w : [res |-> w.res, ram |-> [ram EXCEPT !.video_ram = w.memory]])
      [] region = "IoRegisters" ->
            Bind(MappedIoRegisters_write_byte(ram.mapped_io_registers, region_address, value),
                 LAMBDA w : [res |-> w.res, ram |-> [ram EXCEPT !.mapped_io_registers = w.io]])
      [] region = "Oam" ->
            Bind(RamChip_write_byte(ram.oam, OAM_SIZE, region_address, value),
                 LAMBDA w : [res |-> w.res, ram |-> [ram EXCEPT !.oam = w.memory]])

\* impl Ram for MappedRam
MappedRam_write_byte(ram, address, value) ==
    Bind(mapping_for_address(address), LAMBDA i :
        IF i = 0 THEN [res |-> Err(UnmappedRegion(address)), ram |-> ram]
        ELSE Bind(RAM_MAPPINGS[i], LAMBDA ram_mapping :
             Bind(get_mapped_ram_mut(ram, ram_mapping.region,
                                     address - ram_mapping.offset, value),
                  LAMBDA w :
                     IF w.res.ok \/ w.res.panic THEN w
                     ELSE [res |-> Err(adjust_for_offset(w.res.error, ram_mapping.offset)),
                           ram |-> w.ram])))

\* Rom::read_double_byte (default method)
read_double_byte(ram, address) ==
    Bind(MappedRam_read_byte(ram, address), LAMBDA low :
        IF ~low.ok THEN low
        ELSE Bind(MappedRam_read_byte(ram, (address + 1) % 65536), LAMBDA high :
                 IF ~high.ok THEN high
                 ELSE Ok(high.value * 256 + low.value)))

\* A variant of write_double_byte that lays the value out big-endian.
write_double_byte_BigEndian(ram, address, value) ==
    LET high == value \div 256
        low == value % 256
    IN  Bind(MappedRam_write_byte(ram, address, high), LAMBDA w1 :
            IF ~w1.res.ok THEN w1
            ELSE MappedRam_write_byte(w1.ram, (address + 1) % 65536, low))

\* Ram::write_double_byte (default method)
write_double_byte(ram, address, value) ==
    LET high == value \div 256
        low == value % 256
    IN  Bind(MappedRam_write_byte(ram, address, low), LAMBDA w1 :
            IF ~w1.res.ok THEN w1
            ELSE MappedRam_write_byte(w1.ram, (address + 1) % 65536, high))

(***************************************************************************)
(* The register file (hardware/register_bank.rs).  Single registers are    *)
(* indexed A=0 B=1 C=2 D=3 E=4 F=5 H=6 L=7, pairs AF=0 BC=1 DE=2 HL=3.     *)
(***************************************************************************)
AddressOutOfRange(a) == [kind |-> "AddressOutOfRange", address |-> a]
InvalidDoubleRegister(a) == [kind |-> "InvalidDoubleRegister", address |-> a]

A == 0
B == 1
C == 2
D == 3
E == 4
F == 5
H == 6
L == 7
AF == 0
BC == 1
DE == 2
HL == 3
ACC_REGISTER == A

\* RegisterBank::new
RegisterBank_new == [i \in 0..(SINGLE_REGISTER_BANK_SIZE - 1) |-> 0]

\* RegisterBank::read_single
read_single(bank, address) ==
    IF address \in DOMAIN bank THEN Ok(bank[address])
    ELSE Err(AddressOutOfRange(address))

\* A variant of write_single that stores the value modulo 8 past the end.
write_single_Wrapping(bank, address, value) ==
    [res |-> Ok(0),
     bank |-> [bank EXCEPT ![address % SINGLE_REGISTER_BANK_SIZE] = value]]

\* RegisterBank::write_single: the result and the bank after the call.
write_single(bank, address, value) ==
    IF address \in DOMAIN bank
    THEN [res |-> Ok(0), bank |-> [bank EXCEPT ![address] = value]]
    ELSE [res |-> Err(AddressOutOfRange(address)), bank |-> bank]

\* RegisterBank::get_double_address: <<high, low>>, or <<>> for None.
get_double_address(address) ==
    CASE address = 0 -> <<0, 5>>
      [] address = 1 -> <<1, 2>>
      [] address = 2 -> <<3, 4>>
      [] address = 3 -> <<6, 7>>
      [] OTHER -> <<>>

\* RegisterBank::read_double
read_double(bank, address) ==
    Bind(get_double_address(address), LAMBDA pair :
        IF pair = <<>> THEN Err(InvalidDoubleRegister(address))
        ELSE Bind(read_single(bank, pair[1]), LAMBDA high :
                 IF ~high.ok THEN high
                 ELSE Bind(read_single(bank, pair[2]), LAMBDA low :
                          IF ~low.ok THEN low
                          ELSE Ok(high.value * 256 + low.value))))

\* A variant of write_double that stores the halves the other way round.
write_double_LowFirst(bank, address, value) ==
    Bind(get_double_address(address), LAMBDA pair :
        IF pair = <<>> THEN [res |-> Err(InvalidDoubleRegister(address)), bank |-> bank]
        ELSE Bind(write_single(bank, pair[1], value % 256), LAMBDA w1 :
                 IF ~w1.res.ok THEN w1
                 ELSE write_single(w1.bank, pair[2], value \div 256)))

\* RegisterBank::write_double: the result and the bank after the call.
write_double(bank, address, value) ==
    Bind(get_double_address(address), LAMBDA pair :
        IF pair = <<>> THEN [res |-> Err(InvalidDoubleRegister(address)), bank |-> bank]
        ELSE LET high == value \div 256
                 low == value % 256
             IN  Bind(write_single(bank, pair[1], high), LAMBDA w1 :
                     IF ~w1.res.ok THEN w1
                     ELSE write_single(w1.bank, pair[2], low)))

\* enum BitFlags: the position of each flag in the F register.
Zero == 7
Subtraction == 6
HalfCarry == 5
Carry == 4

\* RegisterBank::read_bit_flag; flag is the bit position (Zero=7 .. Carry=4).
read_bit_flag(bank, flag) == (bank[FLAG_REGISTER] \div (2 ^ flag)) % 2 = 1

\* RegisterBank::write_bit_flag
write_bit_flag(bank, flag, bit) ==
    LET bitmask == 2 ^ flag
        flag_register == bank[FLAG_REGISTER]
        cleared == IF read_bit_flag(bank, flag) THEN flag_register - bitmask
                   ELSE flag_register
        new_flag_register == IF bit THEN cleared + bitmask ELSE cleared
    IN  [bank EXCEPT ![FLAG_REGISTER] = new_flag_register]

\* The named accessors unwrap a result that is always Ok for a named register.
read_single_named(bank, single_register) == read_single(bank, single_register).value
write_single_named(bank, single_register, value) == write_single(bank, single_register, value).bank
read_double_named(bank, double_register) == read_double(bank, double_register).value
write_double_named(bank, double_register, value) == write_double(bank, double_register, value).bank

\* The empty function: a chip holding only zeroes.
ZeroChip == [x \in {} |-> 0]

(***************************************************************************)
(* The counters of the I/O window (hardware/counters).                     *)
(***************************************************************************)
\* DividerRegister: a 16-bit value.  impl Tick for DividerRegister
DividerRegister_tick(value) == (value + 1) % 65536

\* impl Rom for DividerRegister: only the highest byte is mapped.
DividerRegister_read_byte(value, address) ==
    IF address = 0 THEN Ok(value \div 256) ELSE Err(InvalidAddress(address))

\* impl Ram for DividerRegister: the result and the register after the call.
DividerRegister_write_byte(value, address, byte) ==
    IF address = 0 THEN [res |-> Ok(0), value |-> 0]
    ELSE [res |-> Err(InvalidAddress(address)), value |-> value]

\* InputClockSelect::freq, on the two bits of the selection.
InputClockSelect_freq(selected) ==
    CASE selected = 0 -> 1024
      [] selected = 1 -> 16
      [] selected = 2 -> 64
      [] selected = 3 -> 256

\* Timer::default
Timer_default ==
    [enabled |-> FALSE, selected_clock_speed |-> 0, counter |-> 0, modulo |-> 0,
     ticks |-> 0]

\* Timer::get_timer_control
get_timer_control(timer) ==
    timer.selected_clock_speed + (IF timer.enabled THEN 4 ELSE 0)

\* Timer::set_timer_control
set_timer_control(timer, value) ==
    [timer EXCEPT !.selected_clock_speed = value % 4,
                  !.enabled = (value \div 4) % 2 = 1,
                  !.ticks = timer.ticks % InputClockSelect_freq(value % 4)]

\* A variant of the tick that counts whether or not the timer is enabled.
Timer_tick_AlwaysEnabled(timer) ==
    LET freq == InputClockSelect_freq(timer.selected_clock_speed)
        new_ticks == ((timer.ticks + 1) % 65536) % freq
        update_counter == ((timer.ticks + 1) % 65536) \div freq > 0
    IN  IF update_counter
        THEN [timer EXCEPT !.ticks = new_ticks,
                           !.counter = IF timer.counter = 255 THEN timer.modulo
                                       ELSE timer.counter + 1]
        ELSE [timer EXCEPT !.ticks = new_ticks]

\* impl Tick for Timer
Timer_tick(timer) ==
    LET freq == InputClockSelect_freq(timer.selected_clock_speed)
        new_ticks == ((timer.ticks + 1) % 65536) % freq
        update_counter == ((timer.ticks + 1) % 65536) \div freq > 0
    IN  IF update_counter /\ timer.enabled
        THEN [timer EXCEPT !.ticks = new_ticks,
                           !.counter = IF timer.counter = 255 THEN timer.modulo
                                       ELSE timer.counter + 1]
        ELSE [timer EXCEPT !.ticks = new_ticks]

\* impl Rom for Timer
Timer_read_byte(timer, address) ==
    CASE address = 0 -> Ok(timer.counter)
      [] address = 1 -> Ok(timer.modulo)
      [] address = 2 -> Ok(get_timer_control(timer))
      [] OTHER -> Err(InvalidAddress(address))

\* impl Ram for Timer: the result and the timer after the call.
Timer_write_byte(timer, address, value) ==
    CASE address = 0 -> [res |-> Err(WriteOnRom(address)), timer |-> timer]
      [] address = 1 -> [res |-> Ok(0), timer |-> [timer EXCEPT !.modulo = value]]
      [] address = 2 -> [res |-> Ok(0), timer |-> set_timer_control(timer, value)]
      [] OTHER -> [res |-> Err(InvalidAddress(address)), timer |-> timer]

(***************************************************************************)
(* The registers of the I/O window (hardware/ram/io_registers.rs,          *)
(* hardware/ram/traits.rs, hardware/screen/position.rs, hardware/audio.rs).*)
(***************************************************************************)
IO_REGISTER_SERIAL_TRANSFER_SIZE == 2
IO_REGISTER_TIMERS_SIZE == 3
IO_REGISTER_AUDIO_SIZE == 23
IO_REGISTER_WAVE_SIZE == 16

IO_REGISTER_MAPPING_ENTRIES ==
    << [region |-> "JoypadInput", offset |-> 0, size |-> 1],
       [region |-> "SerialTransfer", offset |-> 1, size |-> IO_REGISTER_SERIAL_TRANSFER_SIZE],
       [region |-> "DividerRegister", offset |-> 4, size |-> 1],
       [region |-> "Timers", offset |-> 5, size |-> IO_REGISTER_TIMERS_SIZE],
       [region |-> "Audio", offset |-> 16, size |-> IO_REGISTER_AUDIO_SIZE],
       [region |-> "Wave", offset |-> 48, size |-> IO_REGISTER_WAVE_SIZE],
       [region |-> "LcdControl", offset |-> 64, size |-> 1],
       [region |-> "LcdStatus", offset |-> 65, size |-> 1],
       [region |-> "ScreenScroll", offset |-> 66, size |-> 2],
       [region |-> "ScreenPosition", offset |-> 74, size |-> 2],
       [region |-> "Bgp", offset |-> 71, size |-> 1] >>

\* IoRegistersMemoryMapping::default
IoRegistersMemoryMapping_default ==
    [joypad_input |-> 0,
     serial_transfer |-> ZeroChip,
     divider_register |-> 0,
     timer |-> Timer_default,
     wave |-> ZeroChip,
     lcd_control |-> 0,
     lcd_status |-> 0,
     screen_scroll |-> [y |-> 0, x |-> 0],
     screen_position |-> [y |-> 0, x |-> 0],
     bgp |-> 0]

\* impl Rom for u8
u8_read_byte(byte, address) ==
    IF address = 0 THEN Ok(byte) ELSE Err(InvalidAddress(address))

\* impl Ram for u8: the result and the byte after the call.
u8_write_byte(byte, address, value) ==
    IF address = 0 THEN [res |-> Ok(0), byte |-> value]
    ELSE [res |-> Err(InvalidAddress(address)), byte |-> byte]

\* impl Rom for ScreenCord
ScreenCord_read_byte(cord, address) ==
    CASE address = 0 -> Ok(cord.y)
      [] address = 1 -> Ok(cord.y)
      [] OTHER -> Err(InvalidAddress(address))

\* impl Ram for ScreenCord: the result and the coordinates after the call.
ScreenCord_write_byte(cord, address, value) ==
    CASE address = 0 -> [res |-> Ok(0), cord |-> [cord EXCEPT !.y = value]]
      [] address = 1 -> [res |-> Ok(0), cord |-> [cord EXCEPT !.x = value]]
      [] OTHER -> [res |-> Err(InvalidAddress(address)), cord |-> cord]

\* IoRegistersMemoryMapping::get_rom followed by the region's read_byte.
get_rom(io, region, address) ==
    CASE region = "JoypadInput" -> u8_read_byte(io.joypad_input, address)
      [] region = "SerialTransfer" ->
            RamChip_read_byte(io.serial_transfer, IO_REGISTER_SERIAL_TRANSFER_SIZE, address)
      [] region = "DividerRegister" ->
            DividerRegister_read_byte(io.divider_register, address)
      [] region = "Timers" -> Timer_read_byte(io.timer, address)
      [] region = "Audio" -> Ok(0)
      [] region = "Wave" -> RamChip_read_byte(io.wave, IO_REGISTER_WAVE_SIZE, address)
      [] region = "LcdControl" -> u8_read_byte(io.lcd_control, address)
      [] region = "LcdStatus" -> u8_read_byte(io.lcd_status, address)
      [] region = "ScreenPosition" -> ScreenCord_read_byte(io.screen_position, address)
      [] region = "ScreenScroll" -> ScreenCord_read_byte(io.screen_scroll, address)
      [] region = "Bgp" -> u8_read_byte(io.bgp, address)

\* IoRegistersMemoryMapping::get_ram followed by the region's write_byte: the
\* result and the registers after the call.  The DividerRegister arm hands
\* out serial_transfer.
get_ram(io, region, address, value) ==
    CASE region = "JoypadInput" ->
            Bind(u8_write_byte(io.joypad_input, address, value), LAMBDA w :
                [res |-> w.res, io |-> [io EXCEPT !.joypad_input = w.byte]])
      [] region \in {"SerialTransfer", "DividerRegister"} ->
            Bind(RamChip_write_byte(io.serial_transfer, IO_REGISTER_SERIAL_TRANSFER_SIZE,
                                    address, value), LAMBDA w :
                [res |-> w.res, io |-> [io EXCEPT !.serial_transfer = w.memory]])
      [] region = "Timers" ->
            Bind(Timer_write_byte(io.timer, address, value), LAMBDA w :
                [res |-> w.res, io |-> [io EXCEPT !.timer = w.timer]])
      [] region = "Audio" -> [res |-> Ok(0), io |-> io]
      [] region = "Wave" ->
            Bind(RamChip_write_byte(io.wave, IO_REGISTER_WAVE_SIZE, address, value),
                 LAMBDA w : [res |-> w.res, io |-> [io EXCEPT !.wave = w.memory]])
      [] region = "LcdControl" ->
            Bind(u8_write_byte(io.lcd_control, address, value), LAMBDA w :
                [res |-> w.res, io |-> [io EXCEPT !.lcd_control = w.byte]])
      [] region = "LcdStatus" ->
            Bind(u8_write_byte(io.lcd_status, address, value), LAMBDA w :
                [res |-> w.res, io |-> [io EXCEPT !.lcd_status = w.byte]])
      [] region = "ScreenPosition" ->
            Bind(ScreenCord_write_byte(io.screen_position, address, value), LAMBDA w :
                [res |-> w.res, io |-> [io EXCEPT !.screen_position = w.cord]])
      [] region = "ScreenScroll" ->
            Bind(ScreenCord_write_byte(io.screen_scroll, address, value), LAMBDA w :
                [res |-> w.res, io |-> [io EXCEPT !.screen_scroll = w.cord]])
      [] region = "Bgp" ->
            Bind(u8_write_byte(io.bgp, address, value), LAMBDA w :
                [res |-> w.res, io |-> [io EXCEPT !.bgp = w.byte]])

\* MemoryMapping::find_mapping on the I/O table: the index of the entry, 0
\* for UnmappedRegion.
find_mapping(address) == FirstMatch(IO_REGISTER_MAPPING_ENTRIES, address)

\* impl<M: RegionToMemoryMapper> Rom for M :: read_byte, on the I/O registers
IoRegisters_read_byte(io, address) ==
    Bind(find_mapping(address), LAMBDA i :
        IF i = 0 THEN Err(UnmappedRegion(address))
        ELSE Bind(IO_REGISTER_MAPPING_ENTRIES[i], LAMBDA entry :
             Bind(get_rom(io, entry.region, address - entry.offset), LAMBDA r :
                 IF r.ok THEN r ELSE Err(adjust_for_offset(r.error, entry.offset)))))

\* impl<M: RegionToMemoryMapper> Ram for M :: write_byte, on the I/O
\* registers: the result and the registers after the call.
IoRegisters_write_byte(io, address, value) ==
    Bind(find_mapping(address), LAMBDA i :
        IF i = 0 THEN [res |-> Err(UnmappedRegion(address)), io |-> io]
        ELSE Bind(IO_REGISTER_MAPPING_ENTRIES[i], LAMBDA entry :
             Bind(get_ram(io, entry.region, address - entry.offset, value), LAMBDA w :
                 IF w.res.ok THEN w
                 ELSE [res |-> Err(adjust_for_offset(w.res.error, entry.offset)),
                       io |-> w.io])))

(***************************************************************************)
(* The CPU aggregate (hardware/cpu.rs).                                    *)
(***************************************************************************)
\* The boot ROM's data table (hardware/ram/bootstrap.rs): a fixed vector of
\* 256 bytes.  Its contents do not matter to the fabric; two tables are
\* considered, all zeroes and the table holding at each address its own
\* low byte.
BOOTSTRAP_DATA == {[a \in 0..(BOOTSTRAP_RAM_SIZE - 1) |-> (a * k) % 256] : k \in {0, 1}}

\* MappedRam::new, for a given boot table.
MappedRam_new(table) ==
    [boostrap_ram |-> table,
     working_ram |-> ZeroChip,
     video_ram |-> ZeroChip,
     mapped_io_registers |-> [lcd_control |-> 0],
     oam |-> ZeroChip]

\* Cpu::new, for a given boot table.
Cpu_new(table) ==
    [register_bank |-> RegisterBank_new,
     mapped_ram |-> MappedRam_new(table),
     pc |-> PC_START,
     sp |-> SP_START,
     ime |-> TRUE]

\* The aggregate held by the variables.
Cpu == [register_bank |-> register_bank, mapped_ram |-> mapped_ram,
        pc |-> pc, sp |-> sp, ime |-> ime]

\* The variables after the step hold the aggregate c.
SetCpu(c) ==
    /\ register_bank' = c.register_bank
    /\ mapped_ram' = c.mapped_ram
    /\ pc' = c.pc
    /\ sp' = c.sp
    /\ ime' = c.ime

\* The record of the last operation; every operation fills the fields it uses.
NoOp == [name |-> "none", address |-> 0, value |-> 0, res |-> Ok(0)]

\* A panic unwinds out of the emulator: nothing runs after it.
Running == ~op.res.panic /\ steps < MaxSteps

\* Bookkeeping of an operation: the aggregate before it is remembered.
Record ==
    /\ pre' = Cpu
    /\ steps' = steps + 1

(***************************************************************************)
(* Accesses through the top-level fabric.                                  *)
(***************************************************************************)
\* Addresses at and around the boundaries of every region, and inside them.
ProbeAddresses ==
    {0, 255, 256, 32767, 32768, 32769, 40959, 40960, 49151, 49152, 49153, 57343, 57344,
     65023, 65024, 65183, 65184, 65279, 65280, 65344, 65407, 65408, 65535}
ProbeBytes == {0, 18, 255}
ProbeDoubleBytes == {4660, 255}

ReadByte(address) ==
    /\ Running
    /\ op' = [name |-> "read_byte", address |-> address, value |-> 0,
              res |-> MappedRam_read_byte(mapped_ram, address)]
    /\ Record
    /\ UNCHANGED io_registers
    /\ UNCHANGED <<register_bank, mapped_ram, pc, sp, ime, prev>>

WriteByte(address, value) ==
    /\ Running
    /\ Bind(MappedRam_write_byte(mapped_ram, address, value), LAMBDA w :
           /\ mapped_ram' = w.ram
           /\ op' = [name |-> "write_byte", address |-> address, value |-> value,
                     res |-> w.res])
    /\ Record
    /\ UNCHANGED io_registers
    /\ UNCHANGED <<register_bank, pc, sp, ime, prev>>

ReadDoubleByte(address) ==
    /\ Running
    /\ op' = [name |-> "read_double_byte", address |-> address, value |-> 0,
              res |-> read_double_byte(mapped_ram, address)]
    /\ Record
    /\ UNCHANGED io_registers
    /\ UNCHANGED <<register_bank, mapped_ram, pc, sp, ime, prev>>

WriteDoubleByte(address, value) ==
    /\ Running
    /\ Bind(write_double_byte(mapped_ram, address, value), LAMBDA w :
           /\ mapped_ram' = w.ram
           /\ op' = [name |-> "write_double_byte", address |-> address, value |-> value,
                     res |-> w.res])
    /\ Record
    /\ UNCHANGED io_registers
    /\ UNCHANGED <<register_bank, pc, sp, ime, prev>>

InitRam ==
    /\ \E table \in BOOTSTRAP_DATA : 
          /\ register_bank = Cpu_new(table).register_bank
          /\ mapped_ram = Cpu_new(table).mapped_ram
          /\ pc = Cpu_new(table).pc
          /\ sp = Cpu_new(table).sp
          /\ ime = Cpu_new(table).ime
          /\ pre = Cpu_new(table)
    /\ op = NoOp
    /\ prev = [op |-> NoOp, pre |-> pre]
    /\ steps = 0
    /\ io_registers = IoRegistersMemoryMapping_default

NextRam ==
    \/ \E a \in ProbeAddresses : ReadByte(a)
    \/ \E a \in ProbeAddresses, v \in ProbeBytes : WriteByte(a, v)
    \/ \E a \in ProbeAddresses : ReadDoubleByte(a)
    \/ \E a \in ProbeAddresses, v \in ProbeDoubleBytes : WriteDoubleByte(a, v)

SpecRam == InitRam /\ [][NextRam]_vars

(***************************************************************************)
(* Properties of the memory-mapping fabric.                                *)
(***************************************************************************)
\* The regions of the memory map, as address ranges.
InBootRom(a) == a >= 0 /\ a <= 255
InVideoRam(a) == a >= 32768 /\ a <= 40959
InWorkRam(a) == a >= 49152 /\ a <= 57343
InOam(a) == a >= 65024 /\ a <= 65183
InIoWindow(a) == a >= 65280 /\ a <= 65407
InRamRegion(a) == InVideoRam(a) \/ InWorkRam(a) \/ InOam(a)
InMappedRegion(a) == InBootRom(a) \/ InRamRegion(a) \/ InIoWindow(a)

\* The global addresses at which a fabric holds a non-zero RAM byte.
Touched(ram) ==
    {WORKING_RAM_START + s : s \in DOMAIN ram.working_ram}
    \cup {VIDEO_RAM_START + s : s \in DOMAIN ram.video_ram}
    \cup {OAM_START + s : s \in DOMAIN ram.oam}

\* Two fabrics hold the same byte at every address outside the set S.
SameExceptAt(old, new, S) ==
    /\ new.boostrap_ram = old.boostrap_ram
    /\ \A a \in (Touched(old) \cup Touched(new) \cup ProbeAddresses) \ S :
          MappedRam_read_byte(new, a) = MappedRam_read_byte(old, a)

\* C5: for every address A in VRAM, work RAM or OAM and every byte v,
\* write_byte(A, v) succeeds, a following read_byte(A) returns v, and the
\* byte stored at every other address is unchanged.
C5_RamWriteThenRead ==
    (op.name = "write_byte" /\ InRamRegion(op.address)) =>
        /\ op.res.ok
        /\ MappedRam_read_byte(mapped_ram, op.address) = Ok(op.value)
        /\ SameExceptAt(pre.mapped_ram, mapped_ram, {op.address})

\* A non-zero byte was written to RAM while another RAM byte was non-zero.
C5_Witness ==
    /\ op.name = "write_byte" /\ InRamRegion(op.address) /\ op.value # 0
    /\ op.res.ok
    /\ Touched(pre.mapped_ram) \ {op.address} # {}
    /\ MappedRam_read_byte(mapped_ram, op.address).value = op.value

\* C6 (as claimed): for every boot ROM address A and every v, write_byte(A, v)
\* returns the error value WriteOnRom(A) and the boot ROM is unchanged.
C6_RomWriteReturnsWriteOnRom ==
    (op.name = "write_byte" /\ InBootRom(op.address)) =>
        /\ op.res = Err(WriteOnRom(op.address))
        /\ mapped_ram.boostrap_ram = pre.mapped_ram.boostrap_ram

\* C7: for every address A outside the five mapped regions, read_byte(A) and
\* write_byte(A, v) both return UnmappedRegion(A) and memory is unchanged.
C7_UnmappedFaults ==
    (op.name \in {"read_byte", "write_byte"} /\ ~InMappedRegion(op.address)) =>
        /\ op.res = Err(UnmappedRegion(op.address))
        /\ mapped_ram = pre.mapped_ram

\* A write at 0xFEA0, the first address past OAM, faulted.
C7_Witness ==
    /\ op.name = "write_byte" /\ op.address = 65184 /\ op.value # 0
    /\ op.res.error.kind = "UnmappedRegion"

\* The last address of every mapped region, and of every writable one.
LastOfMapped == {255, 40959, 57343, 65183, 65407}
LastOfWritable == {40959, 57343, 65183, 65407}

\* C8 (as claimed): read_byte succeeds at the last address of every mapped
\* region, the I/O window's 0xFF7F included, and write_byte succeeds at the
\* last address of every writable region.
C8_LastByteSucceeds ==
    /\ (op.name = "read_byte" /\ op.address \in LastOfMapped) => op.res.ok
    /\ (op.name = "write_byte" /\ op.address \in LastOfWritable) => op.res.ok

\* C8 (amended): read_byte succeeds at the last address of the boot ROM,
\* VRAM, work RAM and OAM, write_byte succeeds at the last address of VRAM,
\* work RAM and OAM, and at the I/O window's last address 0xFF7F both return
\* UnmappedRegion(0xFF7F) because no I/O register is mapped there.
C8_LastByteAmended ==
    /\ (op.name = "read_byte" /\ op.address \in LastOfMapped \ {65407}) => op.res.ok
    /\ (op.name = "write_byte" /\ op.address \in LastOfWritable \ {65407}) => op.res.ok
    /\ (op.name \in {"read_byte", "write_byte"} /\ op.address = 65407) =>
          op.res = Err(UnmappedRegion(65407))

\* The last byte of OAM was written and holds the value.
C8_Witness ==
    /\ op.name = "write_byte" /\ op.address = 65183 /\ op.res.ok
    /\ op.value # 0 /\ ChipByte(mapped_ram.oam, OAM_SIZE - 1) = op.value

\* C9: whenever read_byte or write_byte through the top-level fabric at
\* global address A returns a RamError, the address it carries equals A.
C9_ErrorCarriesGlobalAddress ==
    (op.name \in {"read_byte", "write_byte"} /\ ~op.res.ok /\ ~op.res.panic) =>
        op.res.error.address = op.address

\* An error raised inside the nested I/O registers came back through the fabric.
C9_Witness ==
    /\ op.name = "read_byte" /\ InIoWindow(op.address) /\ ~op.res.ok
    /\ op.res.error.address >= IO_REGISTERS_MAPPING_START

\* C10: for every A such that A and A+1 lie in the same RAM region and every
\* 16-bit v, write_double_byte(A, v) stores v mod 256 at A and v div 256 at
\* A+1, and read_double_byte(A) then returns v.
C10_DoubleByteLittleEndian ==
    (/\ op.name = "write_double_byte"
     /\ \/ InVideoRam(op.address) /\ InVideoRam(op.address + 1)
        \/ InWorkRam(op.address) /\ InWorkRam(op.address + 1)
        \/ InOam(op.address) /\ InOam(op.address + 1)) =>
        /\ op.res.ok
        /\ MappedRam_read_byte(mapped_ram, op.address) = Ok(op.value % 256)
        /\ MappedRam_read_byte(mapped_ram, op.address + 1) = Ok(op.value \div 256)
        /\ read_double_byte(mapped_ram, op.address) = Ok(op.value)

\* 0x1234 was written to work RAM: 0x34 at A and 0x12 at A+1.
C10_Witness ==
    /\ op.name = "write_double_byte" /\ op.value = 4660 /\ op.res.ok
    /\ InWorkRam(op.address) /\ InWorkRam(op.address + 1)
    /\ MappedRam_read_byte(mapped_ram, op.address).value = 52
    /\ MappedRam_read_byte(mapped_ram, op.address + 1).value = 18

(***************************************************************************)
(* Execution errors (instructions.rs).                                     *)
(***************************************************************************)
\* A variant of the error that carries the byte without its two top bits.
ExecutionError_InvalidOpcode_Truncated(opcode) ==
    [kind |-> "InvalidOpcode", opcode |-> opcode % 64]

ExecutionError_RamError(ram_error) == [kind |-> "RamError", ram_error |-> ram_error]
ExecutionError_InvalidOpcode(opcode) == [kind |-> "InvalidOpcode", opcode |-> opcode]

\* impl From<RamError> for ExecutionError, as applied by the ? operator to
\* the result of a memory access.
ExecutionError_from(res) ==
    IF res.ok \/ res.panic THEN res ELSE Err(ExecutionError_RamError(res.error))

(***************************************************************************)
(* Double-byte operands (instructions/base/double_byte.rs).                *)
(***************************************************************************)
\* A value of an enum is a record whose kind is the name of the variant and
\* whose other fields are the variant's fields.  enum DoubleByteSource:
\*   [kind |-> "DoubleRegister", reg], [kind |-> "Immediate", value],
\*   [kind |-> "StackPointer"]

\* DoubleByteSource::read
DoubleByteSource_read(src, cpu) ==
    CASE src.kind = "DoubleRegister" -> Ok(read_double_named(cpu.register_bank, src.reg))
      [] src.kind = "Immediate" -> Ok(src.value)
      [] src.kind = "StackPointer" -> Ok(cpu.sp)

(***************************************************************************)
(* The change set (instructions/changeset/*.rs).  A change is a record     *)
(* tagged with the name of its struct; committing it onto an aggregate     *)
(* gives a result and the aggregate after the commit.                      *)
(***************************************************************************)
SingleRegisterChange(reg, value) == [kind |-> "SingleRegisterChange", reg |-> reg, value |-> value]
DoubleRegisterChange(reg, value) == [kind |-> "DoubleRegisterChange", reg |-> reg, value |-> value]
SpChange(value) == [kind |-> "SpChange", value |-> value]
PcChange(value) == [kind |-> "PcChange", value |-> value]
ChangeIme(value) == [kind |-> "ChangeIme", value |-> value]
NoChange == [kind |-> "NoChange"]
ChangeList(changes) == [kind |-> "ChangeList", changes |-> changes]

\* Option<bool>
None == "None"
Some(b) == IF b THEN "SomeTrue" ELSE "SomeFalse"
BitFlagsChange(zero, subtraction, half_carry, carry) ==
    [kind |-> "BitFlagsChange", zero |-> zero, subtraction |-> subtraction,
     half_carry |-> half_carry, carry |-> carry]

\* enum MemoryWriteAddress:
\*   [kind |-> "Immediate", address], [kind |-> "DoubleByteSource", src],
\*   [kind |-> "OffsetRegister", base, offset]
MemoryByteWriteChange(address, value) ==
    [kind |-> "MemoryByteWriteChange", address |-> address, value |-> value]
MemoryDoubleByteWriteChange(address, value) ==
    [kind |-> "MemoryDoubleByteWriteChange", address |-> address, value |-> value]

\* MemoryWriteAddress::resolve
MemoryWriteAddress_resolve(address, cpu) ==
    CASE address.kind = "Immediate" -> Ok(address.address)
      [] address.kind = "DoubleByteSource" -> DoubleByteSource_read(address.src, cpu)
      [] address.kind = "OffsetRegister" ->
            Ok((address.base + read_single_named(cpu.register_bank, address.offset)) % 65536)

\* BitFlagsChange::write_to
BitFlagsChange_write_to(bank, flag, maybe_value) ==
    IF maybe_value = None THEN bank
    ELSE write_bit_flag(bank, flag, maybe_value = Some(TRUE))

\* impl Change for BitFlagsChange: Zero, Subtraction, HalfCarry, Carry in turn.
BitFlagsChange_commit_change(change, cpu) ==
    [res |-> Ok(0),
     cpu |-> [cpu EXCEPT !.register_bank =
                 BitFlagsChange_write_to(
                     BitFlagsChange_write_to(
                         BitFlagsChange_write_to(
                             BitFlagsChange_write_to(@, Zero, change.zero),
                             Subtraction, change.subtraction),
                         HalfCarry, change.half_carry),
                     Carry, change.carry)]]

\* impl Change for MemoryByteWriteChange
MemoryByteWriteChange_commit_change(change, cpu) ==
    Bind(MemoryWriteAddress_resolve(change.address, cpu), LAMBDA address :
        IF ~address.ok THEN [res |-> address, cpu |-> cpu]
        ELSE Bind(MappedRam_write_byte(cpu.mapped_ram, address.value, change.value),
                  LAMBDA w : [res |-> ExecutionError_from(w.res),
                              cpu |-> [cpu EXCEPT !.mapped_ram = w.ram]]))

\* impl Change for MemoryDoubleByteWriteChange
MemoryDoubleByteWriteChange_commit_change(change, cpu) ==
    Bind(MemoryWriteAddress_resolve(change.address, cpu), LAMBDA address :
        IF ~address.ok THEN [res |-> address, cpu |-> cpu]
        ELSE Bind(write_double_byte(cpu.mapped_ram, address.value, change.value),
                  LAMBDA w : [res |-> ExecutionError_from(w.res),
                              cpu |-> [cpu EXCEPT !.mapped_ram = w.ram]]))

RECURSIVE commit_change(_, _)
RECURSIVE ChangeList_commit_change_KeepGoing(_, _)
RECURSIVE ChangeList_commit_change(_, _)

\* A variant of the list commit that carries on after a failing change and
\* reports the result of the last one.
ChangeList_commit_change_KeepGoing(changes, cpu) ==
    IF changes = <<>> THEN [res |-> Ok(0), cpu |-> cpu]
    ELSE Bind(commit_change(Head(changes), cpu), LAMBDA first :
             IF first.res.panic \/ Len(changes) = 1 THEN first
             ELSE ChangeList_commit_change_KeepGoing(Tail(changes), first.cpu))

\* impl Change for ChangeList: for change in changes { change.commit_change(cpu)?; } Ok(())
ChangeList_commit_change(changes, cpu) ==
    IF changes = <<>> THEN [res |-> Ok(0), cpu |-> cpu]
    ELSE Bind(commit_change(Head(changes), cpu), LAMBDA first :
             IF ~first.res.ok THEN first
             ELSE ChangeList_commit_change(Tail(changes), first.cpu))

\* Change::commit_change, dispatched on the struct behind the Box<dyn Change>.
commit_change(change, cpu) ==
    CASE change.kind = "SingleRegisterChange" ->
            [res |-> Ok(0),
             cpu |-> [cpu EXCEPT !.register_bank =
                         write_single_named(cpu.register_bank, change.reg, change.value)]]
      [] change.kind = "DoubleRegisterChange" ->
            [res |-> Ok(0),
             cpu |-> [cpu EXCEPT !.register_bank =
                         write_double_named(cpu.register_bank, change.reg, change.value)]]
      [] change.kind = "SpChange" -> [res |-> Ok(0), cpu |-> [cpu EXCEPT !.sp = change.value]]
      [] change.kind = "PcChange" -> [res |-> Ok(0), cpu |-> [cpu EXCEPT !.pc = change.value]]
      [] change.kind = "ChangeIme" -> [res |-> Ok(0), cpu |-> [cpu EXCEPT !.ime = change.value]]
      [] change.kind = "NoChange" -> [res |-> Ok(0), cpu |-> cpu]
      [] change.kind = "BitFlagsChange" -> BitFlagsChange_commit_change(change, cpu)
      [] change.kind = "MemoryByteWriteChange" -> MemoryByteWriteChange_commit_change(change, cpu)
      [] change.kind = "MemoryDoubleByteWriteChange" ->
            MemoryDoubleByteWriteChange_commit_change(change, cpu)
      [] change.kind = "ChangeList" -> ChangeList_commit_change(change.changes, cpu)

(***************************************************************************)
(* Committing change lists.                                                *)
(***************************************************************************)
\* The changes the lists are drawn from: writes to the same register with
\* different values, a change of SP and a write through SP, a write whose
\* address depends on A, writes that fail on an unmapped address (one of
\* them after storing its low byte), and a nested list.
ProbeChanges ==
    {SingleRegisterChange(A, 18),
     SingleRegisterChange(A, 255),
     DoubleRegisterChange(HL, 4660),
     SpChange(WORKING_RAM_START + 2),
     MemoryDoubleByteWriteChange(
         [kind |-> "DoubleByteSource", src |-> [kind |-> "StackPointer"]], 4660),
     MemoryByteWriteChange(
         [kind |-> "OffsetRegister", base |-> WORKING_RAM_START, offset |-> A], 255),
     MemoryByteWriteChange([kind |-> "Immediate", address |-> ECHO_RAM_START], 18),
     MemoryDoubleByteWriteChange(
         [kind |-> "Immediate", address |-> ECHO_RAM_START - 1], 4660),
     BitFlagsChange(Some(TRUE), None, Some(FALSE), Some(TRUE)),
     ChangeList(<<PcChange(256), ChangeIme(FALSE), NoChange>>)}

\* The longest list committed.
MaxListLen == 3

RECURSIVE SeqsUpTo(_, _)
\* The sequences over S of length at most n.
SeqsUpTo(S, n) ==
    IF n = 0 THEN {<<>>}
    ELSE LET shorter == SeqsUpTo(S, n - 1)
         IN  shorter \cup {Append(q, x) : q \in shorter, x \in S}

\* ChangeList::new(changes).commit_change(cpu), on a freshly built Cpu.
CommitChange(changes) ==
    /\ op.name = "none"
    /\ Bind(commit_change(ChangeList(changes), Cpu), LAMBDA c :
           /\ SetCpu(c.cpu)
           /\ op' = [name |-> "commit_change", changes |-> changes, res |-> c.res])
    /\ Record
    /\ UNCHANGED io_registers
    /\ UNCHANGED prev

NextCommit == \E changes \in SeqsUpTo(ProbeChanges, MaxListLen) : CommitChange(changes)

SpecCommit == InitRam /\ [][NextCommit]_vars

(***************************************************************************)
(* Properties of the change list.                                          *)
(***************************************************************************)
RECURSIVE AfterFirst(_, _, _)
\* The aggregate after the first n changes of a list have been committed
\* one by one, each as a change of its own.
AfterFirst(changes, n, cpu) ==
    IF n = 0 THEN cpu
    ELSE commit_change(changes[n], AfterFirst(changes, n - 1, cpu)).cpu

\* The commit of the k-th change, after changes 1..k-1.
KthCommit(changes, k, cpu) == commit_change(changes[k], AfterFirst(changes, k - 1, cpu))

\* The positions at which the commit of a change does not succeed when every
\* change before it has been committed.
Failing(changes, cpu) ==
    {k \in 1..Len(changes) :
        /\ \A j \in 1..(k - 1) : KthCommit(changes, j, cpu).res.ok
        /\ ~KthCommit(changes, k, cpu).res.ok}

\* C1: committing a change list applies its changes in list order; when the
\* commit of the k-th change fails its error is the result, the aggregate is
\* the one left by changes 1..k-1 followed by the failed k-th commit, and no
\* later change is applied; when no change fails the result is Ok and the
\* aggregate is the one left by all the changes in order.
C1_ListCommitInOrder ==
    op.name = "commit_change" =>
        LET changes == op.changes
            failing == Failing(changes, pre)
        IN  IF failing = {}
            THEN /\ op.res = Ok(0)
                 /\ Cpu = AfterFirst(changes, Len(changes), pre)
            ELSE \E k \in failing :
                    /\ op.res = KthCommit(changes, k, pre).res
                    /\ Cpu = KthCommit(changes, k, pre).cpu

\* A list of three changes whose second fails with an error: the first is
\* applied (A holds its value), the third is not (H and L are untouched).
C1_Witness ==
    /\ op.name = "commit_change"
    /\ Len(op.changes) = 3
    /\ op.changes[1] = SingleRegisterChange(A, 18)
    /\ op.changes[3] = DoubleRegisterChange(HL, 4660)
    /\ ~op.res.ok /\ ~op.res.panic
    /\ op.res.error.kind = "RamError"
    /\ register_bank[A] = 18
    /\ register_bank[H] = 0 /\ register_bank[L] = 0

(***************************************************************************)
(* Operands (instructions/base/byte.rs, instructions/base/double_byte.rs). *)
(***************************************************************************)
\* enum ByteSource:
\*   [kind |-> "SingleRegister", reg], [kind |-> "AddressInRegister", reg],
\*   [kind |-> "OffsetAddressInRegister", base, offset],
\*   [kind |-> "AddressInImmediate", address], [kind |-> "Immediate", value]
\* ByteSource::read
ByteSource_read(src, cpu) ==
    CASE src.kind = "SingleRegister" -> Ok(read_single_named(cpu.register_bank, src.reg))
      [] src.kind = "AddressInRegister" ->
            ExecutionError_from(
                MappedRam_read_byte(cpu.mapped_ram, read_double_named(cpu.register_bank, src.reg)))
      [] src.kind = "OffsetAddressInRegister" ->
            ExecutionError_from(
                MappedRam_read_byte(cpu.mapped_ram,
                    (src.base + read_single_named(cpu.register_bank, src.offset)) % 65536))
      [] src.kind = "AddressInImmediate" ->
            ExecutionError_from(MappedRam_read_byte(cpu.mapped_ram, src.address))
      [] src.kind = "Immediate" -> Ok(src.value)

\* enum ByteDestination:
\*   [kind |-> "SingleRegister", reg], [kind |-> "AddressImmediate", address],
\*   [kind |-> "AddressInRegister", reg],
\*   [kind |-> "OffsetAddressInRegister", base, offset]
\* and [kind |-> "Acc"], the variant the shift instructions are built with.
\* ByteDestination::change_destination
ByteDestination_change_destination(dst, value) ==
    CASE dst.kind = "SingleRegister" -> SingleRegisterChange(dst.reg, value)
      [] dst.kind = "Acc" -> SingleRegisterChange(ACC_REGISTER, value)
      [] dst.kind = "AddressImmediate" ->
            MemoryByteWriteChange([kind |-> "Immediate", address |-> dst.address], value)
      [] dst.kind = "AddressInRegister" ->
            MemoryByteWriteChange(
                [kind |-> "DoubleByteSource",
                 src |-> [kind |-> "DoubleRegister", reg |-> dst.reg]], value)
      [] dst.kind = "OffsetAddressInRegister" ->
            MemoryByteWriteChange(
                [kind |-> "OffsetRegister", base |-> dst.base, offset |-> dst.offset], value)

\* enum DoubleByteDestination:
\*   [kind |-> "DoubleRegister", reg], [kind |-> "StackPointer"],
\*   [kind |-> "AddressInImmediate", address]
\* DoubleByteDestination::change_destination
DoubleByteDestination_change_destination(dst, value) ==
    CASE dst.kind = "DoubleRegister" -> DoubleRegisterChange(dst.reg, value)
      [] dst.kind = "StackPointer" -> SpChange(value)
      [] dst.kind = "AddressInImmediate" ->
            MemoryDoubleByteWriteChange([kind |-> "Immediate", address |-> dst.address], value)

(***************************************************************************)
(* Instructions (instructions/control.rs, instructions/load/*.rs).  An     *)
(* instruction is a record tagged with the name of its struct.             *)
(***************************************************************************)
NopInstruction == [kind |-> "NopInstruction"]
StopInstruction == [kind |-> "StopInstruction"]
HaltInstruction == [kind |-> "HaltInstruction"]
SetImeInstruction(value) == [kind |-> "SetImeInstruction", value |-> value]
PushInstruction(source) == [kind |-> "PushInstruction", source |-> source]
PopInstruction(destination) == [kind |-> "PopInstruction", destination |-> destination]
DoubleByteLoadInstruction(src, dst) ==
    [kind |-> "DoubleByteLoadInstruction", src |-> src, dst |-> dst]
\* A byte load built with ByteLoadOperation::no_update().
\* ByteLoadOperation::no_update and ByteLoadOperation::with_update
ByteLoadOperation_no_update == [update |-> [kind |-> "None"]]
ByteLoadOperation_with_update(update) == [update |-> [kind |-> "Some", value |-> update]]
\* ByteLoadInstruction::new(src, dst, op)
ByteLoadInstruction_new(src, dst, operation) ==
    [kind |-> "ByteLoadInstruction", src |-> src, dst |-> dst, op |-> operation]
\* ByteLoadInstruction::new(src, dst, ByteLoadOperation::no_update())
ByteLoadInstruction(src, dst) == ByteLoadInstruction_new(src, dst, ByteLoadOperation_no_update)

\* A variant of PUSH that stores the value at the old SP instead of SP - 2.
PushInstruction_compute_change_AtOldSp(instruction, cpu) ==
    LET address == (cpu.sp + 65536 - 2) % 65536
    IN  Bind(DoubleByteSource_read(instruction.source, cpu), LAMBDA value :
            IF ~value.ok THEN value
            ELSE Ok(ChangeList(<<SpChange(address),
                                 MemoryDoubleByteWriteChange(
                                     [kind |-> "Immediate", address |-> cpu.sp],
                                     value.value)>>)))

\* impl ChangesetExecutable for PushInstruction
PushInstruction_compute_change(instruction, cpu) ==
    LET address == (cpu.sp + 65536 - 2) % 65536
    IN  Bind(DoubleByteSource_read(instruction.source, cpu), LAMBDA value :
            IF ~value.ok THEN value
            ELSE Ok(ChangeList(<<SpChange(address),
                                 MemoryDoubleByteWriteChange(
                                     [kind |-> "Immediate", address |-> address],
                                     value.value)>>)))

\* A variant of the pop that moves the stack pointer by one byte.
PopInstruction_compute_change_OneByte(instruction, cpu) ==
    LET address == (cpu.sp + 1) % 65536
    IN  Bind(ExecutionError_from(read_double_byte(cpu.mapped_ram, cpu.sp)), LAMBDA value :
            IF ~value.ok THEN value
            ELSE Ok(ChangeList(<<DoubleByteDestination_change_destination(
                                     instruction.destination, value.value),
                                 SpChange(address)>>)))

\* impl ChangesetExecutable for PopInstruction
PopInstruction_compute_change(instruction, cpu) ==
    LET address == (cpu.sp + 2) % 65536
    IN  Bind(ExecutionError_from(read_double_byte(cpu.mapped_ram, cpu.sp)), LAMBDA value :
            IF ~value.ok THEN value
            ELSE Ok(ChangeList(<<DoubleByteDestination_change_destination(
                                     instruction.destination, value.value),
                                 SpChange(address)>>)))

\* DoubleByteLoadOperation::execute behind UnaryDoubleByteInstruction
DoubleByteLoadInstruction_compute_change(instruction, cpu) ==
    Bind(DoubleByteSource_read(instruction.src, cpu), LAMBDA value :
        IF ~value.ok THEN value
        ELSE Ok(DoubleByteDestination_change_destination(instruction.dst, value.value)))

\* A variant of the byte load that also clears the four flags.
ByteLoadInstruction_compute_change_ClearsFlags(instruction, cpu) ==
    Bind(ByteSource_read(instruction.src, cpu), LAMBDA value :
        IF ~value.ok THEN value
        ELSE Ok(ChangeList(<<ByteDestination_change_destination(instruction.dst, value.value),
                             BitFlagsChange(Some(FALSE), Some(FALSE), Some(FALSE),
                                            Some(FALSE))>>)))

\* ByteLoadOperation::execute behind the byte instruction
ByteLoadInstruction_compute_change(instruction, cpu) ==
    Bind(ByteSource_read(instruction.src, cpu), LAMBDA value :
        IF ~value.ok THEN value
        ELSE Ok(ByteDestination_change_destination(instruction.dst, value.value)))

\* A variant of compute_changes whose plain rotate shifts the old carry in.
ByteShiftOperation_compute_changes_RotateThroughCarry(operation, value, old_carry, dst) ==
    LET old_sign == (value \div 16) % 2 = 1 \/ (value \div 64) % 2 = 1
        shifted == IF operation.direction = "Left" THEN (value * 2) % 256
                   ELSE value \div 2
        shifted_out == IF operation.direction = "Left" THEN value >= 128
                       ELSE value % 2 = 1
        shift_in_bit == CASE operation.type_ = "Rotate" -> old_carry
                          [] operation.type_ = "RotateWithCarry" -> old_carry
                          [] OTHER -> FALSE
        with_shift_in == IF shift_in_bit
                         THEN shifted + (IF operation.direction = "Left" THEN 1 ELSE 128)
                         ELSE shifted
        result == IF operation.type_ = "ArithmeticShift" /\ operation.direction = "Right"
                  THEN (with_shift_in % 128) + (IF old_sign THEN 128 ELSE 0)
                  ELSE with_shift_in
        new_zero == IF dst.kind = "Acc" THEN FALSE ELSE result = 0
    IN  ChangeList(<<ByteDestination_change_destination(dst, result),
                     BitFlagsChange(Some(new_zero), Some(FALSE), Some(FALSE),
                                    Some(shifted_out))>>)

\* ByteShiftOperation::compute_changes: the value shifted by one bit, the bit
\* shifted in chosen by the type, written to dst; all flags zeroed, then
\* Carry = the bit shifted out and Zero = zero_flag_for_result(dst, result).
ByteShiftOperation_compute_changes(operation, value, old_carry, dst) ==
    LET old_sign == (value \div 16) % 2 = 1 \/ (value \div 64) % 2 = 1
        shifted == IF operation.direction = "Left" THEN (value * 2) % 256
                   ELSE value \div 2
        shifted_out == IF operation.direction = "Left" THEN value >= 128
                       ELSE value % 2 = 1
        shift_in_bit == CASE operation.type_ = "Rotate" -> shifted_out
                          [] operation.type_ = "RotateWithCarry" -> old_carry
                          [] OTHER -> FALSE
        with_shift_in == IF shift_in_bit
                         THEN shifted + (IF operation.direction = "Left" THEN 1 ELSE 128)
                         ELSE shifted
        result == IF operation.type_ = "ArithmeticShift" /\ operation.direction = "Right"
                  THEN (with_shift_in % 128) + (IF old_sign THEN 128 ELSE 0)
                  ELSE with_shift_in
        new_zero == IF dst.kind = "Acc" THEN FALSE ELSE result = 0
    IN  ChangeList(<<ByteDestination_change_destination(dst, result),
                     BitFlagsChange(Some(new_zero), Some(FALSE), Some(FALSE),
                                    Some(shifted_out))>>)

\* impl ByteOperation for ByteShiftOperation, behind the shift instruction
ByteShiftInstruction_compute_change(instruction, cpu) ==
    Bind(ByteSource_read(instruction.src, cpu), LAMBDA value :
        IF ~value.ok THEN value
        ELSE Ok(ByteShiftOperation_compute_changes(
                    instruction.op, value.value,
                    read_bit_flag(cpu.register_bank, Carry), instruction.dst)))

(***************************************************************************)
(* The 8-bit ALU (hardware/alu.rs).                                        *)
(***************************************************************************)
\* u8::overflowing_add and u8::overflowing_sub
overflowing_add(x, y) == [value |-> (x + y) % 256, overflow |-> x + y > 255]
overflowing_sub(x, y) == [value |-> (x + 256 - y) % 256, overflow |-> x < y]

\* bool.into() : u8
carry_val(carry) == IF carry THEN 1 ELSE 0

\* struct AluU8Result, and AluU8Result::zero
AluU8Result(result, sub, half_carry, carry) ==
    [result |-> result, sub |-> sub, half_carry |-> half_carry, carry |-> carry]
AluU8Result_zero(r) == r.result = 0

\* half_carry_for_add_u8
half_carry_for_add_u8(left, right, carry) ==
    ((left % 16) + (right % 16) + carry_val(carry)) % 256 > 15

\* A variant of half_carry_for_sub_u8 that ignores the borrow.
half_carry_for_sub_u8_NoBorrow(left, right, carry) ==
    (left % 16) < (right % 16)

\* half_carry_for_sub_u8
half_carry_for_sub_u8(left, right, carry) ==
    (left % 16) < ((right % 16) + carry_val(carry)) % 256

\* A variant of add_with_carry_u8 that drops the overflow of the second add.
add_with_carry_u8_FirstOverflowOnly(left, right, carry) ==
    Bind(overflowing_add(left, right), LAMBDA first :
    Bind(overflowing_add(first.value, carry_val(carry)), LAMBDA second :
        AluU8Result(second.value, FALSE, half_carry_for_add_u8(left, right, carry),
                    first.overflow)))

\* add_with_carry_u8
add_with_carry_u8(left, right, carry) ==
    Bind(overflowing_add(left, right), LAMBDA first :
    Bind(overflowing_add(first.value, carry_val(carry)), LAMBDA second :
        AluU8Result(second.value, FALSE, half_carry_for_add_u8(left, right, carry),
                    first.overflow \/ second.overflow)))

\* add_u8
add_u8(left, right) == add_with_carry_u8(left, right, FALSE)

\* sub_u8_with_carry
sub_u8_with_carry(left, right, carry) ==
    Bind(overflowing_sub(left, right), LAMBDA first :
    Bind(overflowing_sub(first.value, carry_val(carry)), LAMBDA second :
        AluU8Result(second.value, TRUE, half_carry_for_sub_u8(left, right, carry),
                    first.overflow \/ second.overflow)))

\* sub_u8
sub_u8(left, right) == sub_u8_with_carry(left, right, FALSE)

(***************************************************************************)
(* Arithmetic instructions (instructions/arithmetic/add_or_sub.rs,         *)
(* instructions/arithmetic/bcd.rs, instructions/double_arithmetic.rs).     *)
(***************************************************************************)
\* AluU8Result::change_flags
AluU8Result_change_flags(r) ==
    BitFlagsChange(Some(AluU8Result_zero(r)), Some(r.sub), Some(r.half_carry), Some(r.carry))

\* BinaryArithmeticOperation::alu_result
BinaryArithmeticOperation_alu_result(operation, left, right, carry) ==
    CASE operation.type_ = "Add" -> add_with_carry_u8(left, right, carry)
      [] operation.type_ = "Sub" -> sub_u8_with_carry(left, right, carry)

\* impl BinaryByteOperation for BinaryArithmeticOperation, behind the
\* binary byte instruction
BinaryArithmeticInstruction_compute_change(instruction, cpu) ==
    LET carry == instruction.op.with_carry /\ read_bit_flag(cpu.register_bank, Carry)
    IN  Bind(ByteSource_read(instruction.left, cpu), LAMBDA left :
            IF ~left.ok THEN left
            ELSE Bind(ByteSource_read(instruction.right, cpu), LAMBDA right :
                    IF ~right.ok THEN right
                    ELSE Bind(BinaryArithmeticOperation_alu_result(
                                  instruction.op, left.value, right.value, carry),
                              LAMBDA result :
                                 Ok(ChangeList(<<ByteDestination_change_destination(
                                                     instruction.dst, result.result),
                                                 AluU8Result_change_flags(result)>>)))))

\* A variant of the adjustment whose subtraction branch always clears the
\* carry.
DecimalAdjust_adjust_SubClearsCarry(value, sub_flag, carry_flag, half_carry_flag) ==
    IF ~sub_flag
    THEN LET high == IF carry_flag \/ value > 153 THEN (value + 96) % 256 ELSE value
             low == IF half_carry_flag \/ (high % 16) > 9 THEN (high + 6) % 256 ELSE high
         IN  [value |-> low, carry |-> carry_flag \/ value > 153]
    ELSE LET high == IF carry_flag THEN (value + 256 - 96) % 256 ELSE value
             low == IF half_carry_flag THEN (high + 256 - 6) % 256 ELSE high
         IN  [value |-> low, carry |-> FALSE]

\* DecimalAdjust::adjust: the adjusted byte and the next carry flag.
DecimalAdjust_adjust(value, sub_flag, carry_flag, half_carry_flag) ==
    IF ~sub_flag
    THEN LET high == IF carry_flag \/ value > 153 THEN (value + 96) % 256 ELSE value
             low == IF half_carry_flag \/ (high % 16) > 9 THEN (high + 6) % 256 ELSE high
         IN  [value |-> low, carry |-> carry_flag \/ value > 153]
    ELSE LET high == IF carry_flag THEN (value + 256 - 96) % 256 ELSE value
             low == IF half_carry_flag THEN (high + 256 - 6) % 256 ELSE high
         IN  [value |-> low, carry |-> carry_flag]

\* impl ChangesetInstruction for DecimalAdjust
DecimalAdjust_compute_change(cpu) ==
    Bind(DecimalAdjust_adjust(read_single_named(cpu.register_bank, ACC_REGISTER),
                              read_bit_flag(cpu.register_bank, Subtraction),
                              read_bit_flag(cpu.register_bank, Carry),
                              read_bit_flag(cpu.register_bank, HalfCarry)),
         LAMBDA next :
            Ok(ChangeList(<<SingleRegisterChange(ACC_REGISTER, next.value),
                            BitFlagsChange(Some(next.value = 0), None, Some(FALSE),
                                           Some(next.carry))>>)))

\* impl BinaryDoubleByteOperation for BinaryDoubleByteAddOperation, behind the
\* binary double byte instruction.  Both high bytes are taken from the left
\* value.
BinaryDoubleByteAddOperation_compute_changes(cpu, left, right, dst) ==
    Bind(DoubleByteSource_read(left, cpu), LAMBDA left_value :
        IF ~left_value.ok THEN left_value
        ELSE Bind(DoubleByteSource_read(right, cpu), LAMBDA right_value :
                IF ~right_value.ok THEN right_value
                ELSE LET high_left_value == left_value.value \div 256
                         high_right_value == left_value.value \div 256
                         result == (left_value.value + right_value.value) % 65536
                     IN  Bind(add_u8(high_left_value, high_right_value),
                              LAMBDA high_alu_result :
                                 Ok(ChangeList(<<DoubleByteDestination_change_destination(
                                                     dst, result),
                                                 BitFlagsChange(
                                                     None, Some(FALSE),
                                                     Some(high_alu_result.half_carry),
                                                     Some(high_alu_result.carry))>>)))))

(***************************************************************************)
(* Jumps, calls and returns (instructions/flow/condition.rs, branch.rs,    *)
(* call.rs, return_.rs).                                                   *)
(***************************************************************************)
\* BranchCondition::satisfied
BranchCondition_satisfied(condition, cpu) ==
    CASE condition.kind = "Unconditional" -> TRUE
      [] condition.kind = "TestFlag" ->
            read_bit_flag(cpu.register_bank, condition.flag) = condition.branch_if_equals

\* JumpInstructionDestination::resolve: pc.wrapping_add_signed(delta) for a
\* relative jump.
JumpInstructionDestination_resolve(dst, cpu) ==
    CASE dst.kind = "FromSource" -> DoubleByteSource_read(dst.source, cpu)
      [] dst.kind = "RelativeToPc" -> Ok((cpu.pc + 65536 + dst.delta) % 65536)

\* impl ChangesetExecutable for JumpInstruction
JumpInstruction_compute_change(instruction, cpu) ==
    IF BranchCondition_satisfied(instruction.condition, cpu)
    THEN Bind(JumpInstructionDestination_resolve(instruction.dst, cpu), LAMBDA destination :
             IF ~destination.ok THEN destination
             ELSE Ok(PcChange(destination.value)))
    ELSE Ok(NoChange)

\* A variant of the call that writes the return address at the stack pointer
\* of before the call.
CallInstruction_compute_change_AtOldSp(instruction, cpu) ==
    IF BranchCondition_satisfied(instruction.condition, cpu)
    THEN Ok(ChangeList(<<SpChange((cpu.sp + 65536 - 2) % 65536),
                         MemoryDoubleByteWriteChange(
                             [kind |-> "Immediate", address |-> cpu.sp], cpu.pc),
                         PcChange(instruction.address)>>))
    ELSE Ok(ChangeList(<<>>))

\* impl ChangesetExecutable for CallInstruction: the write is addressed by the
\* stack pointer as a source, read when the change is committed.
CallInstruction_compute_change(instruction, cpu) ==
    IF BranchCondition_satisfied(instruction.condition, cpu)
    THEN Ok(ChangeList(<<SpChange((cpu.sp + 65536 - 2) % 65536),
                         MemoryDoubleByteWriteChange(
                             [kind |-> "DoubleByteSource",
                              src |-> [kind |-> "StackPointer"]], cpu.pc),
                         PcChange(instruction.address)>>))
    ELSE Ok(ChangeList(<<>>))

\* A variant of the return that reads the stack before it tests the condition.
ReturnInstruction_compute_change_ReadsFirst(instruction, cpu) ==
    Bind(ExecutionError_from(read_double_byte(cpu.mapped_ram, cpu.sp)), LAMBDA address :
        IF ~address.ok THEN address
        ELSE IF BranchCondition_satisfied(instruction.condition, cpu)
        THEN Ok(ChangeList(<<PcChange(address.value), SpChange(cpu.sp + 2)>>
                           \o (IF instruction.enable_interrupts
                               THEN <<ChangeIme(TRUE)>> ELSE <<>>)))
        ELSE Ok(ChangeList(<<>>)))

\* A variant of the return that moves the stack pointer by one byte.
ReturnInstruction_compute_change_OneByte(instruction, cpu) ==
    IF BranchCondition_satisfied(instruction.condition, cpu)
    THEN Bind(ExecutionError_from(read_double_byte(cpu.mapped_ram, cpu.sp)), LAMBDA address :
             IF ~address.ok THEN address
             ELSE Ok(ChangeList(<<PcChange(address.value), SpChange(cpu.sp + 1)>>
                                \o (IF instruction.enable_interrupts
                                    THEN <<ChangeIme(TRUE)>> ELSE <<>>))))
    ELSE Ok(ChangeList(<<>>))

\* impl ChangesetExecutable for ReturnInstruction.  The new stack pointer is
\* sp_value + 2 in plain u16 arithmetic, which a debug build checks and a
\* release build wraps: the sum is kept as it is, above 0xFFFF if it
\* overflows.
ReturnInstruction_compute_change(instruction, cpu) ==
    IF BranchCondition_satisfied(instruction.condition, cpu)
    THEN Bind(ExecutionError_from(read_double_byte(cpu.mapped_ram, cpu.sp)), LAMBDA address :
             IF ~address.ok THEN address
             ELSE Ok(ChangeList(<<PcChange(address.value), SpChange(cpu.sp + 2)>>
                                \o (IF instruction.enable_interrupts
                                    THEN <<ChangeIme(TRUE)>> ELSE <<>>))))
    ELSE Ok(ChangeList(<<>>))

\* The instructions whose execute is derived from compute_change.
IsChangesetInstruction(instruction) ==
    instruction.kind \in {"SetImeInstruction", "PushInstruction", "PopInstruction",
                          "DoubleByteLoadInstruction", "ByteLoadInstruction",
                          "ByteShiftInstruction", "JumpInstruction", "CallInstruction",
                          "ReturnInstruction", "BinaryArithmeticInstruction",
                          "DecimalAdjust", "BinaryDoubleAddInstruction"}

\* compute_change, dispatched on the struct of the instruction: Ok(change)
\* or the error.  It takes the aggregate by shared reference.
compute_change(instruction, cpu) ==
    CASE instruction.kind = "SetImeInstruction" -> Ok(ChangeIme(instruction.value))
      [] instruction.kind = "PushInstruction" -> PushInstruction_compute_change(instruction, cpu)
      [] instruction.kind = "PopInstruction" -> PopInstruction_compute_change(instruction, cpu)
      [] instruction.kind = "DoubleByteLoadInstruction" ->
            DoubleByteLoadInstruction_compute_change(instruction, cpu)
      [] instruction.kind = "ByteLoadInstruction" ->
            ByteLoadInstruction_compute_change(instruction, cpu)
      [] instruction.kind = "ByteShiftInstruction" ->
            ByteShiftInstruction_compute_change(instruction, cpu)
      [] instruction.kind = "JumpInstruction" -> JumpInstruction_compute_change(instruction, cpu)
      [] instruction.kind = "CallInstruction" -> CallInstruction_compute_change(instruction, cpu)
      [] instruction.kind = "ReturnInstruction" ->
            ReturnInstruction_compute_change(instruction, cpu)
      [] instruction.kind = "BinaryArithmeticInstruction" ->
            BinaryArithmeticInstruction_compute_change(instruction, cpu)
      [] instruction.kind = "DecimalAdjust" -> DecimalAdjust_compute_change(cpu)
      [] instruction.kind = "BinaryDoubleAddInstruction" ->
            BinaryDoubleByteAddOperation_compute_changes(
                cpu, instruction.left, instruction.right, instruction.dst)

\* A variant of the derived execute that drops the result of the commit.
ChangesetInstruction_execute_DropsCommitResult(instruction, cpu) ==
    Bind(compute_change(instruction, cpu), LAMBDA change :
        IF ~change.ok THEN [res |-> change, cpu |-> cpu]
        ELSE [res |-> Ok(0), cpu |-> commit_change(change.value, cpu).cpu])

\* impl Instruction for T: ChangesetInstruction
\*   let change = self.compute_change(cpu)?; change.commit_change(cpu)?; Ok(())
ChangesetInstruction_execute(instruction, cpu) ==
    Bind(compute_change(instruction, cpu), LAMBDA change :
        IF ~change.ok THEN [res |-> change, cpu |-> cpu]
        ELSE commit_change(change.value, cpu))

\* Instruction::execute: the result and the aggregate after it.  STOP and
\* HALT are todo!(), which panics.
execute(instruction, cpu) ==
    CASE instruction.kind = "NopInstruction" -> [res |-> Ok(0), cpu |-> cpu]
      [] instruction.kind \in {"StopInstruction", "HaltInstruction"} ->
            [res |-> Panic, cpu |-> cpu]
      [] IsChangesetInstruction(instruction) -> ChangesetInstruction_execute(instruction, cpu)

(***************************************************************************)
(* Executing instructions on an aggregate.                                 *)
(***************************************************************************)
\* Stack pointers: the reset value, one whose two bytes below fall in the
\* boot ROM, one with only the byte below in work RAM, and ones whose two
\* bytes below are the first or the last bytes of a RAM region.
ProbeStackPointers ==
    {SP_START, 2, WORKING_RAM_START + 1, WORKING_RAM_START + 2, ECHO_RAM_START,
     VIDEO_RAM_START + VIDEO_RAM_SIZE}

\* Register files: the reset value and two with a different byte in every
\* register.  Any register file is reached by immediate loads.
ProbeBanks ==
    {[i \in 0..(SINGLE_REGISTER_BANK_SIZE - 1) |-> (k * (16 * i + 9)) % 256] : k \in {0, 1, 7}}

ProbeInstructions ==
    {NopInstruction, StopInstruction, SetImeInstruction(FALSE),
     PushInstruction([kind |-> "DoubleRegister", reg |-> BC]),
     PushInstruction([kind |-> "DoubleRegister", reg |-> AF]),
     PopInstruction([kind |-> "DoubleRegister", reg |-> DE]),
     PopInstruction([kind |-> "DoubleRegister", reg |-> AF]),
     PopInstruction([kind |-> "DoubleRegister", reg |-> BC]),
     DoubleByteLoadInstruction([kind |-> "Immediate", value |-> WORKING_RAM_START + 2],
                               [kind |-> "StackPointer"]),
     DoubleByteLoadInstruction([kind |-> "DoubleRegister", reg |-> HL],
                               [kind |-> "StackPointer"]),
     DoubleByteLoadInstruction([kind |-> "Immediate", value |-> 4660],
                               [kind |-> "DoubleRegister", reg |-> HL]),
     ByteLoadInstruction([kind |-> "Immediate", value |-> 18],
                         [kind |-> "SingleRegister", reg |-> A]),
     ByteLoadInstruction([kind |-> "SingleRegister", reg |-> A],
                         [kind |-> "AddressInRegister", reg |-> HL]),
     ByteLoadInstruction([kind |-> "SingleRegister", reg |-> B],
                         [kind |-> "AddressImmediate", address |-> WORKING_RAM_START]),
     ByteLoadInstruction([kind |-> "AddressInRegister", reg |-> BC],
                         [kind |-> "SingleRegister", reg |-> A]),
     ByteLoadInstruction([kind |-> "AddressInImmediate", address |-> ECHO_RAM_START],
                         [kind |-> "SingleRegister", reg |-> A]),
     ByteLoadInstruction([kind |-> "SingleRegister", reg |-> A],
                         [kind |-> "OffsetAddressInRegister",
                          base |-> IO_REGISTERS_MAPPING_START, offset |-> C])}

\* instruction.execute(cpu)
Execute(instruction) ==
    /\ Running
    /\ Bind(execute(instruction, Cpu), LAMBDA e :
           /\ SetCpu(e.cpu)
           /\ op' = [name |-> "execute", instruction |-> instruction, res |-> e.res])
    /\ Record
    /\ UNCHANGED io_registers
    /\ prev' = [op |-> op, pre |-> pre]

InitExec ==
    /\ \E table \in BOOTSTRAP_DATA, bank \in ProbeBanks, stack \in ProbeStackPointers :
          /\ register_bank = bank
          /\ mapped_ram = MappedRam_new(table)
          /\ pc = PC_START
          /\ sp = stack
          /\ ime = TRUE
          /\ pre = [Cpu_new(table) EXCEPT !.register_bank = bank, !.sp = stack]
    /\ op = NoOp
    /\ prev = [op |-> NoOp, pre |-> pre]
    /\ steps = 0
    /\ io_registers = IoRegistersMemoryMapping_default

NextExec == \E instruction \in ProbeInstructions : Execute(instruction)

SpecExec == InitExec /\ [][NextExec]_vars

(***************************************************************************)
(* Properties of instructions.                                             *)
(***************************************************************************)
\* C3: for an instruction built on compute_change, execute returns the
\* result and leaves the aggregate that committing compute_change(s) onto
\* the starting aggregate s gives; compute_change itself leaves s as it
\* was, so that when it fails the aggregate after execute is still s.
C3_ExecuteIsComputeThenCommit ==
    (op.name = "execute" /\ IsChangesetInstruction(op.instruction)) =>
        LET change == compute_change(op.instruction, pre)
        IN  IF ~change.ok
            THEN op.res = change /\ Cpu = pre
            ELSE /\ op.res = commit_change(change.value, pre).res
                 /\ Cpu = commit_change(change.value, pre).cpu

\* A PUSH whose change was computed and whose commit then failed on the
\* memory write, after SP had been changed.
C3_Witness ==
    /\ op.name = "execute"
    /\ op.instruction.kind = "PushInstruction"
    /\ compute_change(op.instruction, pre).ok
    /\ ~op.res.ok /\ ~op.res.panic
    /\ sp # pre.sp

\* C4: when the two bytes below SP lie in a RAM region, a PUSH of a register
\* pair followed immediately by a POP into a register pair succeeds, leaves
\* in that pair the value the pushed pair held, and leaves SP as it was
\* before the PUSH.
C4_PushPopRoundTrip ==
    (/\ op.name = "execute" /\ op.instruction.kind = "PopInstruction"
     /\ prev.op.name = "execute" /\ prev.op.instruction.kind = "PushInstruction"
     /\ InRamRegion((prev.pre.sp + 65536 - 2) % 65536)
     /\ InRamRegion((prev.pre.sp + 65536 - 1) % 65536)) =>
        /\ prev.op.res.ok /\ op.res.ok
        /\ read_double_named(register_bank, op.instruction.destination.reg)
              = read_double_named(prev.pre.register_bank, prev.op.instruction.source.reg)
        /\ sp = prev.pre.sp

\* A PUSH of AF holding a non-zero value followed by a POP into BC, with the
\* stack at the top of work RAM.
C4_Witness ==
    /\ op.name = "execute" /\ op.instruction.kind = "PopInstruction"
    /\ prev.op.name = "execute" /\ prev.op.instruction.kind = "PushInstruction"
    /\ prev.op.instruction.source.reg = AF
    /\ op.instruction.destination.reg = BC
    /\ prev.pre.sp = ECHO_RAM_START
    /\ read_double_named(register_bank, BC) > 255
    /\ read_double_named(register_bank, BC) % 256 # 0
    /\ sp = ECHO_RAM_START

(***************************************************************************)
(* Fetch and decode (hardware/cpu.rs, bits.rs, decoder.rs).                *)
(***************************************************************************)
\* A variant of the increment that leaves the counter where it is.
ProgramCounter_increment_Stuck(value) == value

\* ProgramCounter::increment
ProgramCounter_increment(value) == (value + 1) % 65536

\* Cpu::next_pc and Cpu::next_byte: PC is incremented, then the byte at the
\* old PC is read.
next_byte(cpu) ==
    [res |-> ExecutionError_from(MappedRam_read_byte(cpu.mapped_ram, cpu.pc)),
     cpu |-> [cpu EXCEPT !.pc = ProgramCounter_increment(cpu.pc)]]

\* load_next_u16: u16::from_be_bytes([low, high]) of the next two bytes.
load_next_u16(cpu) ==
    Bind(next_byte(cpu), LAMBDA low :
        IF ~low.res.ok THEN low
        ELSE Bind(next_byte(low.cpu), LAMBDA high :
                 IF ~high.res.ok THEN high
                 ELSE [res |-> Ok(low.res.value * 256 + high.res.value),
                       cpu |-> high.cpu]))

\* load_next_u8
load_next_u8(cpu) == next_byte(cpu)

\* byte_to_bits: bit idx of the byte at index idx.
byte_to_bits(byte) == [idx \in 0..7 |-> (byte \div (2 ^ idx)) % 2 = 1]

\* decode_xyz: x = bits[6..8], y = bits[3..6], z = bits[0..3].
decode_xyz(opcode) ==
    LET bits == byte_to_bits(opcode)
    IN  [x |-> <<bits[6], bits[7]>>,
         y |-> <<bits[3], bits[4], bits[5]>>,
         z |-> <<bits[0], bits[1], bits[2]>>]

\* decode_pq
decode_pq(y) == [p |-> <<y[2], y[3]>>, q |-> y[1]]

\* DecodedInstructionOperand::from_opcode_part, followed by the conversion
\* into a ByteSource or a ByteDestination (the same variants in both).
from_opcode_part(opcode_part) ==
    CASE opcode_part = <<FALSE, FALSE, FALSE>> -> [kind |-> "SingleRegister", reg |-> B]
      [] opcode_part = <<TRUE, FALSE, FALSE>> -> [kind |-> "SingleRegister", reg |-> C]
      [] opcode_part = <<FALSE, TRUE, FALSE>> -> [kind |-> "SingleRegister", reg |-> D]
      [] opcode_part = <<TRUE, TRUE, FALSE>> -> [kind |-> "SingleRegister", reg |-> E]
      [] opcode_part = <<FALSE, FALSE, TRUE>> -> [kind |-> "SingleRegister", reg |-> H]
      [] opcode_part = <<TRUE, FALSE, TRUE>> -> [kind |-> "SingleRegister", reg |-> L]
      [] opcode_part = <<FALSE, TRUE, TRUE>> -> [kind |-> "AddressInRegister", reg |-> HL]
      [] opcode_part = <<TRUE, TRUE, TRUE>> -> [kind |-> "SingleRegister", reg |-> A]

\* DecodedInstructionDoubleOperand::from_opcode_maybe_double with its default
\* (the stack pointer or AF), followed by the conversion into a
\* DoubleByteSource or a DoubleByteDestination.
from_opcode_part_double(opcode_part, default) ==
    CASE opcode_part = <<FALSE, FALSE>> -> [kind |-> "DoubleRegister", reg |-> BC]
      [] opcode_part = <<TRUE, FALSE>> -> [kind |-> "DoubleRegister", reg |-> DE]
      [] opcode_part = <<FALSE, TRUE>> -> [kind |-> "DoubleRegister", reg |-> HL]
      [] opcode_part = <<TRUE, TRUE>> -> default
from_opcode_part_double_or_sp(opcode_part) ==
    from_opcode_part_double(opcode_part, [kind |-> "StackPointer"])
from_opcode_part_double_or_af(opcode_part) ==
    from_opcode_part_double(opcode_part, [kind |-> "DoubleRegister", reg |-> AF])

\* The outcome of an arm of the decoder that loads an immediate: the error of
\* the load, or the instruction built from it; PC stays where the load left it.
Decoded(immediate, instruction) ==
    IF ~immediate.res.ok THEN immediate
    ELSE [res |-> Ok(instruction), cpu |-> immediate.cpu]

\* ByteSource::read_from_acc and ByteDestination::write_to_acc
read_from_acc == [kind |-> "SingleRegister", reg |-> ACC_REGISTER]
write_to_acc == [kind |-> "SingleRegister", reg |-> ACC_REGISTER]

\* load_next_i8: the next byte as a two's complement number.
load_next_i8(cpu) ==
    Bind(next_byte(cpu), LAMBDA delta :
        IF ~delta.res.ok THEN delta
        ELSE [res |-> Ok(IF delta.res.value >= 128 THEN delta.res.value - 256
                         ELSE delta.res.value),
              cpu |-> delta.cpu])

\* bits_to_byte: fold(0, |acc, bit| (acc << 1) | bit), so the first element
\* of the array ends up as the most significant bit.
RECURSIVE bits_to_byte(_)
bits_to_byte(bits) ==
    IF bits = <<>> THEN 0
    ELSE (bits_to_byte(SubSeq(bits, 1, Len(bits) - 1)) * 2
          + (IF bits[Len(bits)] THEN 1 ELSE 0)) % 256

\* enum BranchCondition
Unconditional == [kind |-> "Unconditional"]
TestFlag(flag, branch_if_equals) ==
    [kind |-> "TestFlag", flag |-> flag, branch_if_equals |-> branch_if_equals]

\* decode_conditional: value = op_part[1], flag from op_part[0].
decode_conditional(op_part) ==
    [flag |-> IF op_part[1] THEN Carry ELSE Zero, value |-> op_part[2]]

\* JumpInstruction::new, ReturnInstruction::new, CallInstruction::new
JumpInstruction(dst, condition) ==
    [kind |-> "JumpInstruction", dst |-> dst, condition |-> condition]
ReturnInstruction(condition, enable_interrupts) ==
    [kind |-> "ReturnInstruction", condition |-> condition,
     enable_interrupts |-> enable_interrupts]
CallInstruction(condition, address) ==
    [kind |-> "CallInstruction", condition |-> condition, address |-> address]

\* CallInstruction::restart: call(8 * bits_to_byte(bits))
CallInstruction_restart(bits) == CallInstruction(Unconditional, 8 * bits_to_byte(bits))

\* ByteShiftInstruction::new(src, dst, ByteShiftOperation::new(direction, type_))
ByteShiftInstruction(src, dst, direction, type_) ==
    [kind |-> "ByteShiftInstruction", src |-> src, dst |-> dst,
     op |-> [direction |-> direction, type_ |-> type_]]

\* decode_byte_instruction: the 8-bit ALU instruction chosen by op_part, with
\* the accumulator as left operand and as destination.
decode_byte_instruction(op_part, right) ==
    IF ~op_part[3]
    THEN [kind |-> "BinaryArithmeticInstruction",
          left |-> read_from_acc, right |-> right, dst |-> write_to_acc,
          op |-> [type_ |-> IF op_part[1] THEN "Sub" ELSE "Add",
                  with_carry |-> op_part[2]]]
    ELSE IF op_part[1] /\ op_part[2]
         THEN [kind |-> "CompareInstruction", left |-> read_from_acc, right |-> right]
         ELSE [kind |-> "BinaryLogicalInstruction",
               left |-> read_from_acc, right |-> right, dst |-> write_to_acc,
               op |-> [type_ |-> CASE ~op_part[1] /\ ~op_part[2] -> "And"
                                   [] op_part[1] /\ ~op_part[2] -> "Xor"
                                   [] ~op_part[1] /\ op_part[2] -> "Or"]]

\* decode_prefixed_shifting: the destination is always ByteDestination::Acc.
decode_prefixed_shifting(y, z) ==
    LET source == from_opcode_part(z)
        shift_direction == IF y[1] THEN "Right" ELSE "Left"
        shift_type == CASE ~y[2] /\ ~y[3] -> "Rotate"
                        [] y[2] /\ ~y[3] -> "RotateWithCarry"
                        [] ~y[2] /\ y[3] -> "ArithmeticShift"
                        [] y[2] /\ y[3] -> "LogicalShift"
    IN  IF shift_type = "LogicalShift" /\ shift_direction = "Left"
        THEN [kind |-> "ByteSwapInstruction", src |-> source, dst |-> [kind |-> "Acc"]]
        ELSE ByteShiftInstruction(source, [kind |-> "Acc"], shift_direction, shift_type)

\* SingleBitInstruction::new: bit_shift & 0x07
SingleBitInstruction(operand, operation, bit_shift) ==
    [kind |-> "SingleBitInstruction", operand |-> operand, operation |-> operation,
     bit_shift |-> bit_shift % 8]

\* decode_prefixed_single_bit, with From<DecodedInstructionOperand> for
\* SingleBitOperand.
decode_prefixed_single_bit(operation, y, z) ==
    LET bitshift == bits_to_byte(y)
        operand == from_opcode_part(z)
    IN  SingleBitInstruction(
            IF operand.kind = "SingleRegister" THEN operand
            ELSE [kind |-> "MemoryAddress"],
            operation, bitshift)

\* decode_opcode: the result is Ok(instruction) or the error, and the
\* aggregate with PC past the immediates that were loaded.
decode_opcode(prefix, opcode, cpu) ==
    LET xyz == decode_xyz(opcode)
        x == xyz.x
        y == xyz.y
        z == xyz.z
        p == decode_pq(y).p
        q == decode_pq(y).q
        X0 == prefix = "None" /\ x = <<FALSE, FALSE>>
        X1 == prefix = "None" /\ x = <<TRUE, FALSE>>
        X3 == prefix = "None" /\ x = <<TRUE, TRUE>>
        Z0 == z = <<FALSE, FALSE, FALSE>>
        Z1 == z = <<TRUE, FALSE, FALSE>>
        Z2 == z = <<FALSE, TRUE, FALSE>>
        Z3 == z = <<TRUE, TRUE, FALSE>>
        Z4 == z = <<FALSE, FALSE, TRUE>>
        Z5 == z = <<TRUE, FALSE, TRUE>>
        Z6 == z = <<FALSE, TRUE, TRUE>>
        Z7 == z = <<TRUE, TRUE, TRUE>>
        X2 == prefix = "None" /\ x = <<FALSE, TRUE>>
        u16 == load_next_u16(cpu)
        u8 == load_next_u8(cpu)
        i8 == load_next_i8(cpu)
        conditional == decode_conditional(<<y[1], y[2]>>)
        hl == [kind |-> "DoubleRegister", reg |-> HL]
        in_hl == [kind |-> "AddressInRegister", reg |-> HL]
        io == (IO_REGISTERS_MAPPING_START + u8.res.value) % 65536
        invalid == [res |-> Err(ExecutionError_InvalidOpcode(opcode)), cpu |-> cpu]
    IN  CASE X0 /\ Z0 /\ y = <<FALSE, FALSE, FALSE>> ->
                [res |-> Ok(NopInstruction), cpu |-> cpu]
          [] X0 /\ Z0 /\ y = <<TRUE, FALSE, FALSE>> ->
                Decoded(u16, DoubleByteLoadInstruction(
                    [kind |-> "Immediate", value |-> u16.res.value],
                    [kind |-> "StackPointer"]))
          [] X0 /\ Z0 /\ y = <<FALSE, TRUE, FALSE>> ->
                [res |-> Ok(StopInstruction), cpu |-> cpu]
          [] X0 /\ Z1 /\ ~q ->
                Decoded(u16, DoubleByteLoadInstruction(
                    [kind |-> "Immediate", value |-> u16.res.value],
                    from_opcode_part_double_or_sp(p)))
          [] X0 /\ Z2 /\ ~p[2] ->
                LET register_address == IF p[1] THEN DE ELSE BC
                    in_register == [kind |-> "AddressInRegister", reg |-> register_address]
                IN  [res |-> Ok(IF q THEN ByteLoadInstruction(in_register, write_to_acc)
                                ELSE ByteLoadInstruction(read_from_acc, in_register)),
                     cpu |-> cpu]
          [] X0 /\ Z6 ->
                Decoded(u8, ByteLoadInstruction(
                    [kind |-> "Immediate", value |-> u8.res.value], from_opcode_part(y)))
          [] X1 /\ y = <<FALSE, TRUE, TRUE>> /\ z = <<FALSE, TRUE, TRUE>> ->
                [res |-> Ok(HaltInstruction), cpu |-> cpu]
          [] X1 /\ ~(y = <<FALSE, TRUE, TRUE>> /\ z = <<FALSE, TRUE, TRUE>>) ->
                [res |-> Ok(ByteLoadInstruction(from_opcode_part(z), from_opcode_part(y))),
                 cpu |-> cpu]
          [] X3 /\ Z0 /\ y = <<FALSE, FALSE, TRUE>> ->
                Decoded(u8, ByteLoadInstruction(
                    read_from_acc, [kind |-> "AddressImmediate", address |-> io]))
          [] X3 /\ Z0 /\ y = <<FALSE, TRUE, TRUE>> ->
                Decoded(u8, ByteLoadInstruction(
                    [kind |-> "AddressInImmediate", address |-> io], write_to_acc))
          [] X3 /\ Z1 /\ ~q ->
                [res |-> Ok(PopInstruction(from_opcode_part_double_or_af(p))), cpu |-> cpu]
          [] X3 /\ Z1 /\ q /\ p = <<TRUE, TRUE>> ->
                [res |-> Ok(DoubleByteLoadInstruction(
                            [kind |-> "DoubleRegister", reg |-> HL],
                            [kind |-> "StackPointer"])),
                 cpu |-> cpu]
          [] X3 /\ Z2 /\ ~y[1] /\ y[3] ->
                LET offset == [kind |-> "OffsetAddressInRegister",
                               base |-> IO_REGISTERS_MAPPING_START, offset |-> C]
                IN  [res |-> Ok(IF y[2] THEN ByteLoadInstruction(offset, write_to_acc)
                                ELSE ByteLoadInstruction(read_from_acc, offset)),
                     cpu |-> cpu]
          [] X3 /\ Z2 /\ y[1] /\ y[3] ->
                Decoded(u16,
                    IF y[2]
                    THEN ByteLoadInstruction(
                             [kind |-> "AddressInImmediate", address |-> u16.res.value],
                             write_to_acc)
                    ELSE ByteLoadInstruction(
                             read_from_acc,
                             [kind |-> "AddressImmediate", address |-> u16.res.value]))
          [] X3 /\ Z3 /\ y[2] /\ y[3] ->
                [res |-> Ok(SetImeInstruction(y[1])), cpu |-> cpu]
          [] X3 /\ Z3 /\ ~(y[2] /\ y[3]) /\ y # <<FALSE, FALSE, FALSE>> -> invalid
          [] X3 /\ Z4 /\ y[3] -> invalid
          [] X3 /\ Z5 /\ ~q ->
                [res |-> Ok(PushInstruction(from_opcode_part_double_or_af(p))), cpu |-> cpu]
          [] X3 /\ Z5 /\ q /\ p # <<FALSE, FALSE>> -> invalid
          [] prefix = "CB" /\ x = <<FALSE, FALSE>> ->
                [res |-> Ok(decode_prefixed_shifting(y, z)), cpu |-> cpu]
          [] prefix = "CB" /\ x = <<TRUE, FALSE>> ->
                [res |-> Ok(decode_prefixed_single_bit([kind |-> "Test"], y, z)),
                 cpu |-> cpu]
          [] prefix = "CB" /\ x = <<FALSE, TRUE>> ->
                [res |-> Ok(decode_prefixed_single_bit(
                            [kind |-> "Write", bit |-> FALSE], y, z)),
                 cpu |-> cpu]
          [] prefix = "CB" /\ x = <<TRUE, TRUE>> ->
                [res |-> Ok(decode_prefixed_single_bit(
                            [kind |-> "Write", bit |-> TRUE], y, z)),
                 cpu |-> cpu]
          [] X0 /\ Z0 /\ y = <<TRUE, TRUE, FALSE>> ->
                Decoded(i8, JumpInstruction(
                    [kind |-> "RelativeToPc", delta |-> i8.res.value], Unconditional))
          [] X0 /\ Z0 /\ y[3] ->
                Decoded(i8, JumpInstruction(
                    [kind |-> "RelativeToPc", delta |-> i8.res.value],
                    TestFlag(IF y[2] THEN Carry ELSE Zero, y[1])))
          [] X0 /\ Z1 /\ q ->
                [res |-> Ok([kind |-> "BinaryDoubleAddInstruction", left |-> hl,
                             right |-> from_opcode_part_double_or_sp(p), dst |-> hl]),
                 cpu |-> cpu]
          [] X0 /\ Z2 /\ p[2] ->
                LET update_type == IF p[1] THEN "Decrement" ELSE "Increment"
                    operation == ByteLoadOperation_with_update(
                                     [index |-> HL, type_ |-> update_type])
                IN  [res |-> Ok(IF q THEN ByteLoadInstruction_new(in_hl, write_to_acc,
                                                                  operation)
                                ELSE ByteLoadInstruction_new(read_from_acc, in_hl,
                                                             operation)),
                     cpu |-> cpu]
          [] X0 /\ Z3 ->
                [res |-> Ok([kind |-> "IncOrDecDoubleInstruction",
                             src |-> from_opcode_part_double_or_sp(p),
                             dst |-> from_opcode_part_double_or_sp(p),
                             op |-> IF q THEN "Decrement" ELSE "Increment"]),
                 cpu |-> cpu]
          [] X0 /\ ~z[2] /\ z[3] ->
                [res |-> Ok([kind |-> "IncOrDecInstruction",
                             src |-> from_opcode_part(y), dst |-> from_opcode_part(y),
                             op |-> IF z[1] THEN "Decrement" ELSE "Increment"]),
                 cpu |-> cpu]
          [] X0 /\ Z7 /\ ~y[3] ->
                [res |-> Ok(ByteShiftInstruction(
                            read_from_acc, write_to_acc,
                            IF y[1] THEN "Right" ELSE "Left",
                            IF y[2] THEN "RotateWithCarry" ELSE "Rotate")),
                 cpu |-> cpu]
          [] X0 /\ Z7 /\ y = <<FALSE, FALSE, TRUE>> ->
                [res |-> Ok([kind |-> "DecimalAdjust"]), cpu |-> cpu]
          [] X0 /\ Z7 /\ y = <<TRUE, FALSE, TRUE>> ->
                [res |-> Ok([kind |-> "Negate"]), cpu |-> cpu]
          [] X0 /\ Z7 /\ y[2] /\ y[3] ->
                [res |-> Ok([kind |-> "ChangeCarryFlag", value |-> y[1]]), cpu |-> cpu]
          [] X2 ->
                [res |-> Ok(decode_byte_instruction(y, from_opcode_part(z))), cpu |-> cpu]
          [] X3 /\ Z0 /\ ~y[3] ->
                [res |-> Ok(ReturnInstruction(
                            TestFlag(conditional.flag, conditional.value), FALSE)),
                 cpu |-> cpu]
          [] X3 /\ Z0 /\ y = <<TRUE, FALSE, TRUE>> ->
                Decoded(i8, [kind |-> "AddSignedByteToDouble",
                             src |-> [kind |-> "StackPointer"],
                             dst |-> [kind |-> "StackPointer"],
                             delta |-> i8.res.value])
          [] X3 /\ Z0 /\ y = <<TRUE, TRUE, TRUE>> ->
                Decoded(i8, [kind |-> "AddSignedByteToDouble",
                             src |-> [kind |-> "StackPointer"], dst |-> hl,
                             delta |-> i8.res.value])
          [] X3 /\ Z1 /\ q /\ ~p[2] ->
                [res |-> Ok(ReturnInstruction(Unconditional, p[1])), cpu |-> cpu]
          [] X3 /\ Z1 /\ q /\ p = <<FALSE, TRUE>> ->
                [res |-> Ok(JumpInstruction([kind |-> "FromSource", source |-> hl],
                                            Unconditional)),
                 cpu |-> cpu]
          [] X3 /\ Z2 /\ ~y[3] ->
                Decoded(u16, JumpInstruction(
                    [kind |-> "FromSource",
                     source |-> [kind |-> "Immediate", value |-> u16.res.value]],
                    TestFlag(conditional.flag, conditional.value)))
          [] X3 /\ Z3 /\ y = <<FALSE, FALSE, FALSE>> ->
                Decoded(u16, JumpInstruction(
                    [kind |-> "FromSource",
                     source |-> [kind |-> "Immediate", value |-> u16.res.value]],
                    Unconditional))
          [] X3 /\ Z4 /\ ~y[3] ->
                Decoded(u16, CallInstruction(
                    TestFlag(conditional.flag, conditional.value), u16.res.value))
          [] X3 /\ Z5 /\ q /\ p = <<FALSE, FALSE>> ->
                Decoded(u16, CallInstruction(Unconditional, u16.res.value))
          [] X3 /\ Z6 ->
                Decoded(u8, decode_byte_instruction(
                    y, [kind |-> "Immediate", value |-> u8.res.value]))
          [] X3 /\ Z7 ->
                [res |-> Ok(CallInstruction_restart(y)), cpu |-> cpu]

\* DecodedInstructionPrefix::try_decode_prefix
try_decode_prefix(maybe_prefix) == IF maybe_prefix = 203 THEN "CB" ELSE "None"

\* fetch_and_decode
fetch_and_decode(cpu) ==
    Bind(next_byte(cpu), LAMBDA first_byte :
        IF ~first_byte.res.ok THEN first_byte
        ELSE Bind(try_decode_prefix(first_byte.res.value), LAMBDA prefix :
                 IF prefix # "None"
                 THEN Bind(next_byte(first_byte.cpu), LAMBDA second_byte :
                          IF ~second_byte.res.ok THEN second_byte
                          ELSE decode_opcode(prefix, second_byte.res.value,
                                             second_byte.cpu))
                 ELSE decode_opcode(prefix, first_byte.res.value, first_byte.cpu)))

\* update_cpu: fetch_and_decode(cpu)?; instruction.execute(cpu)?; Ok(())
update_cpu(cpu) ==
    Bind(fetch_and_decode(cpu), LAMBDA instruction :
        IF ~instruction.res.ok THEN instruction
        ELSE execute(instruction.res.value, instruction.cpu))

(***************************************************************************)
(* Running programs from the boot ROM.                                     *)
(***************************************************************************)
\* One instruction of every decoded family, with its immediates.
ProbePrograms ==
    {<<0>>, <<16>>, <<118>>, <<8, 192, 2>>, <<1, 18, 52>>, <<49, 192, 2>>,
     <<2>>, <<10>>, <<26>>, <<6, 18>>, <<54, 18>>, <<65>>, <<126>>, <<112>>,
     <<224, 64>>, <<240, 64>>, <<240, 65>>, <<193>>, <<241>>, <<197>>, <<245>>,
     <<249>>, <<226>>, <<242>>, <<234, 192, 16>>, <<250, 192, 16>>, <<250, 224, 0>>,
     <<243>>, <<251>>,
     <<211>>, <<219>>, <<221>>, <<227>>, <<228>>, <<235>>, <<236>>, <<237>>,
     <<244>>, <<252>>, <<253>>}

\* Where a program starts: at the reset PC, or so that it ends one, two or
\* three bytes before the end of the boot ROM.
ProbeStarts == {PC_START, BOOTSTRAP_RAM_SIZE - 3, BOOTSTRAP_RAM_SIZE - 2, BOOTSTRAP_RAM_SIZE - 1}

\* A program and its start; a lone 0xCB prefix is the last byte of the boot
\* ROM, and the empty program starts just past it.
ProbeLoads ==
    {[start |-> s, program |-> pr] : s \in ProbeStarts, pr \in ProbePrograms}
        \cup {[start |-> BOOTSTRAP_RAM_SIZE - 1, program |-> <<203>>],
              [start |-> BOOTSTRAP_RAM_SIZE, program |-> <<>>]}

\* A boot table holding the program at its start, cut at the end of the
\* table, and 0x00 (NOP) everywhere else.
ProgramTable(load) ==
    [a \in 0..(BOOTSTRAP_RAM_SIZE - 1) |->
        IF a >= load.start /\ a < load.start + Len(load.program)
        THEN load.program[a - load.start + 1] ELSE 0]

\* One turn of the host loop, which ends at the first error.
Step ==
    /\ Running
    /\ op.res.ok
    /\ Bind(fetch_and_decode(Cpu), LAMBDA fetched :
       Bind(update_cpu(Cpu), LAMBDA u :
           /\ SetCpu(u.cpu)
           /\ op' = [name |-> "update_cpu", decoded |-> fetched.res,
                     at_execute |-> fetched.cpu, res |-> u.res]))
    /\ Record
    /\ UNCHANGED io_registers
    /\ prev' = [op |-> op, pre |-> pre]

\* The aggregate after the NOPs that lead to the start of the program have
\* been executed: PC is at the start, everything else as constructed.
InitStep ==
    /\ \E load \in ProbeLoads :
          /\ register_bank = RegisterBank_new
          /\ mapped_ram = MappedRam_new(ProgramTable(load))
          /\ pc = load.start
          /\ sp = SP_START
          /\ ime = TRUE
          /\ pre = [Cpu_new(ProgramTable(load)) EXCEPT !.pc = load.start]
    /\ op = NoOp
    /\ prev = [op |-> NoOp, pre |-> pre]
    /\ steps = 0
    /\ io_registers = IoRegistersMemoryMapping_default

NextStep == Step

SpecStep == InitStep /\ [][NextStep]_vars

(***************************************************************************)
(* Properties of a step.                                                   *)
(***************************************************************************)
\* The last step failed before anything was committed: in the fetch, in the
\* decoder, or in compute_change.
FailedBeforeCommit ==
    /\ op.name = "update_cpu"
    /\ ~op.res.ok /\ ~op.res.panic
    /\ \/ ~op.decoded.ok
       \/ /\ IsChangesetInstruction(op.decoded.value)
          /\ ~compute_change(op.decoded.value, op.at_execute).ok

\* C2: if a step fails before commit, registers, flags, memory, PC, SP and
\* IME all equal their values before the step.
C2_FailedStepLeavesStateUnchanged == FailedBeforeCommit => Cpu = pre

\* What a step that fails before commit leaves: everything but PC as it was,
\* and PC past the bytes whose fetch was attempted.
FailedStepMovesOnlyPc ==
    FailedBeforeCommit => /\ [Cpu EXCEPT !.pc = pre.pc] = pre
                          /\ pc # pre.pc

(***************************************************************************)
(* Fetching and decoding one instruction of every opcode.                  *)
(***************************************************************************)
\* The bytes that follow the opcode under test.
ProbeOperandBytes == {0, 18, 52, 128, 255}

\* Every opcode followed by two operand bytes, and the 0xCB prefix followed
\* by every opcode of the prefixed table.
FetchPrograms ==
    {<<first, b0, b1>> : first \in (0..255) \ {203},
                         b0 \in ProbeOperandBytes, b1 \in ProbeOperandBytes}
        \cup {<<203, second>> : second \in 0..255}

FetchStarts == {PC_START, 128}

FetchLoads == {[start |-> s, program |-> pr] : s \in FetchStarts, pr \in FetchPrograms}

\* fetch_and_decode(cpu), once, on an aggregate with PC at the instruction.
Fetch ==
    /\ Running
    /\ op.name = "none"
    /\ Bind(fetch_and_decode(Cpu), LAMBDA fetched :
           /\ SetCpu(fetched.cpu)
           /\ op' = [name |-> "fetch_and_decode", res |-> fetched.res])
    /\ Record
    /\ UNCHANGED io_registers
    /\ UNCHANGED prev

InitFetch ==
    /\ \E load \in FetchLoads :
          /\ register_bank = RegisterBank_new
          /\ mapped_ram = MappedRam_new(ProgramTable(load))
          /\ pc = load.start
          /\ sp = SP_START
          /\ ime = TRUE
          /\ pre = [Cpu_new(ProgramTable(load)) EXCEPT !.pc = load.start]
    /\ op = NoOp
    /\ prev = [op |-> NoOp, pre |-> pre]
    /\ steps = 0
    /\ io_registers = IoRegistersMemoryMapping_default

NextFetch == Fetch

SpecFetch == InitFetch /\ [][NextFetch]_vars

(***************************************************************************)
(* Properties of the decoder, against the documented opcode table.         *)
(***************************************************************************)
\* The last operation was a fetch that returned an instruction.
Fetched == op.name = "fetch_and_decode" /\ op.res.ok

\* Byte k of the instruction stream the fetch started at.
FetchedAt(k) == MappedRam_read_byte(pre.mapped_ram, (pre.pc + k) % 65536).value

\* The y field (bits 5..3) of an opcode, as a number.
FieldY(opcode) == (opcode \div 8) % 8

\* Opcodes of the documented table that carry a 16-bit immediate: LD rp,nn,
\* LD (nn),SP, JP cc,nn, JP nn, CALL cc,nn, CALL nn, LD (nn),A and LD A,(nn).
HasImmediate16(opcode) ==
    opcode \in {1, 17, 33, 49, 8, 194, 202, 210, 218, 195, 196, 204, 212, 220,
                205, 234, 250}

\* Opcodes of the documented table that carry an 8-bit immediate: LD r,n,
\* JR d, JR cc,d, LDH, ADD SP,d, LD HL,SP+d and the ALU A,n group.
HasImmediate8(opcode) ==
    \/ opcode < 64 /\ opcode % 8 = 6
    \/ opcode \in {24, 32, 40, 48, 56, 224, 240, 232, 248}
    \/ opcode >= 192 /\ opcode % 8 = 6

\* The 16-bit immediate a decoded instruction carries.
Immediate16(instruction) ==
    CASE instruction.kind = "DoubleByteLoadInstruction" -> instruction.src.value
      [] instruction.kind = "JumpInstruction" -> instruction.dst.source.value
      [] instruction.kind = "CallInstruction" -> instruction.address
      [] instruction.kind = "ByteLoadInstruction" ->
            IF instruction.src.kind = "AddressInImmediate"
            THEN instruction.src.address ELSE instruction.dst.address

\* C11: a 16-bit immediate whose first byte in the stream is b0 and whose
\* second byte is b1 decodes to b0 + 256 * b1.
C11_Immediate16LittleEndian ==
    Fetched /\ HasImmediate16(FetchedAt(0))
        => Immediate16(op.res.value) = FetchedAt(1) + 256 * FetchedAt(2)

\* What the decoder builds from the two bytes: u16::from_be_bytes([b0, b1]).
Immediate16FirstByteHigh ==
    Fetched /\ HasImmediate16(FetchedAt(0))
        => Immediate16(op.res.value) = 256 * FetchedAt(1) + FetchedAt(2)

\* The number of bytes an instruction occupies: the opcode, the opcode after
\* a 0xCB prefix, and its immediates.
InstructionLength(first) ==
    IF first = 203 THEN 2
    ELSE IF HasImmediate16(first) THEN 3
    ELSE IF HasImmediate8(first) THEN 2
    ELSE 1

\* C12: after a successful fetch_and_decode started with PC = p, PC is
\* (p + n) mod 65536 for the n bytes of the instruction, and registers,
\* flags, memory, SP and IME are as before the fetch.
C12_FetchAdvancesPcOnly ==
    Fetched => /\ pc = (pre.pc + InstructionLength(FetchedAt(0))) % 65536
               /\ [Cpu EXCEPT !.pc = pre.pc] = pre

C12_Witness ==
    /\ Fetched
    /\ pre.pc = 128
    /\ \E first \in {49, 203, 62, 65} :
          /\ FetchedAt(0) = first
          /\ pc = 128 + InstructionLength(first)
    /\ FetchedAt(0) = 49 => op.res.value.kind = "DoubleByteLoadInstruction"

\* The 8-bit ALU opcodes: x = 2, and x = 3 with z = 6.
IsAluOpcode(opcode) ==
    \/ opcode >= 128 /\ opcode < 192
    \/ opcode >= 192 /\ opcode % 8 = 6

\* ADD, ADC, SUB, SBC, AND, XOR, OR, CP for y = 0..7.
AluTable == <<"add", "adc", "sub", "sbc", "and", "xor", "or", "cp">>

\* The mnemonic of a decoded 8-bit ALU instruction.
AluName(instruction) ==
    CASE instruction.kind = "BinaryArithmeticInstruction" ->
            CASE instruction.op.type_ = "Add" /\ ~instruction.op.with_carry -> "add"
              [] instruction.op.type_ = "Add" /\ instruction.op.with_carry -> "adc"
              [] instruction.op.type_ = "Sub" /\ ~instruction.op.with_carry -> "sub"
              [] instruction.op.type_ = "Sub" /\ instruction.op.with_carry -> "sbc"
      [] instruction.kind = "BinaryLogicalInstruction" ->
            CASE instruction.op.type_ = "And" -> "and"
              [] instruction.op.type_ = "Xor" -> "xor"
              [] instruction.op.type_ = "Or" -> "or"
      [] instruction.kind = "CompareInstruction" -> "cp"

\* C13: for the 8-bit ALU opcodes, y = 0..7 decodes to ADD, ADC, SUB, SBC,
\* AND, XOR, OR, CP, with A as left operand.
C13_AluOperationByY ==
    Fetched /\ IsAluOpcode(FetchedAt(0))
        => /\ AluName(op.res.value) = AluTable[FieldY(FetchedAt(0)) + 1]
           /\ op.res.value.left = read_from_acc

\* Conditional RET (z = 0), JP (z = 2) and CALL (z = 4) with y = 0..3.
IsConditionalOpcode(opcode) ==
    opcode >= 192 /\ opcode % 8 \in {0, 2, 4} /\ FieldY(opcode) < 4

\* NZ, Z, NC, C
ConditionTable ==
    <<TestFlag(Zero, FALSE), TestFlag(Zero, TRUE),
      TestFlag(Carry, FALSE), TestFlag(Carry, TRUE)>>

\* C14: conditional RET, JP and CALL with y = 0, 1, 2, 3 decode to the
\* conditions NZ, Z, NC, C.
C14_ConditionByY ==
    Fetched /\ IsConditionalOpcode(FetchedAt(0))
        => op.res.value.condition = ConditionTable[FieldY(FetchedAt(0)) + 1]

\* Conditional JR with y = 4, 5, 6, 7 decodes to NZ, Z, NC, C.
RelativeJumpConditionByY ==
    Fetched /\ FetchedAt(0) \in {32, 40, 48, 56}
        => op.res.value.condition = ConditionTable[FieldY(FetchedAt(0)) - 3]

\* C15: for every CB-prefixed opcode with x in 1..3 (BIT, RES, SET), the bit
\* index of the instruction is the number in bits 5..3 of the opcode.
C15_BitIndexIsY ==
    Fetched /\ FetchedAt(0) = 203 /\ FetchedAt(1) >= 64
        => op.res.value.bit_shift = FieldY(FetchedAt(1))

\* C16: the restart opcode 0xC7 + 8 * n decodes to an unconditional call of
\* address 8 * n.
C16_RestartTarget ==
    Fetched /\ FetchedAt(0) >= 192 /\ FetchedAt(0) % 8 = 7
        => op.res.value = CallInstruction(Unconditional, 8 * FieldY(FetchedAt(0)))

(***************************************************************************)
(* Running decoded loads and shifts on aggregates with data in them.       *)
(***************************************************************************)
\* LD (nn),SP; the CB-prefixed rotates and shifts of every operand; the byte
\* loads between registers, memory and immediates; the loads with HL+ / HL-.
RunPrograms ==
    {<<8, 16, 192>>, <<8, 192, 192>>}
        \cup {<<203, second>> : second \in (0..63) \ (48..55)}
        \cup {<<first>> : first \in (64..127) \ {118}}
        \cup {<<first, 18>> : first \in {6, 14, 22, 30, 38, 46, 54, 62}}
        \cup {<<2>>, <<10>>, <<18>>, <<26>>, <<226>>, <<242>>,
              <<224, 64>>, <<240, 64>>, <<234, 223, 79>>, <<250, 223, 79>>}
        \cup {<<34>>, <<42>>, <<50>>, <<58>>}

\* Register files: those of ProbeBanks, and one with BC in work RAM, DE in
\* video RAM, HL in OAM, C the offset of the LCD control register and the
\* carry flag set.
RunBanks ==
    ProbeBanks \cup {[i \in 0..(SINGLE_REGISTER_BANK_SIZE - 1) |->
                        <<90, 192, 64, 128, 1, 16, 254, 0>>[i + 1]]}

\* A fabric with the byte fill + k at the k-th address of a sequence; any
\* RAM content is reached by stores.
RECURSIVE FilledRam(_, _, _)
FilledRam(ram, addresses, fill) ==
    IF addresses = <<>> THEN ram
    ELSE FilledRam(MappedRam_write_byte(ram, Head(addresses), fill).ram,
                   Tail(addresses), (fill + 1) % 256)

RunFills == {0, 128, 250}

\* The addresses filled are those the register pairs of RunBanks point at
\* and the immediates of RunPrograms.
RunRam(table, fill) ==
    IF fill = 0 THEN MappedRam_new(table)
    ELSE FilledRam(MappedRam_new(table),
                   <<57167, 36863, 49216, 32769, 65024, 49168, 49344>>, fill)

InitRun ==
    /\ \E pr \in RunPrograms, bank \in RunBanks, fill \in RunFills,
          stack \in {SP_START, 4660} :
          /\ register_bank = bank
          /\ mapped_ram = RunRam(ProgramTable([start |-> PC_START, program |-> pr]), fill)
          /\ pc = PC_START
          /\ sp = stack
          /\ ime = TRUE
          /\ pre = [register_bank |-> bank, mapped_ram |-> mapped_ram,
                    pc |-> PC_START, sp |-> stack, ime |-> TRUE]
    /\ op = NoOp
    /\ prev = [op |-> NoOp, pre |-> pre]
    /\ steps = 0
    /\ io_registers = IoRegistersMemoryMapping_default

NextRun == Step

SpecRun == InitRun /\ [][NextRun]_vars

(***************************************************************************)
(* Properties of the loads and shifts, as decoded and executed.            *)
(***************************************************************************)
\* The last step decoded and executed the instruction at the reset PC.
RanFirst == op.name = "update_cpu" /\ pre.pc = PC_START /\ op.decoded.ok

\* C17: opcode 0x08 followed by nn (low byte first) stores the low byte of SP
\* at nn and the high byte at nn+1 and leaves SP unchanged.
C17_StoreStackPointer ==
    (RanFirst /\ FetchedAt(0) = 8
        /\ InWorkRam(FetchedAt(1) + 256 * FetchedAt(2))) =>
        /\ op.res.ok
        /\ sp = pre.sp
        /\ MappedRam_read_byte(mapped_ram, FetchedAt(1) + 256 * FetchedAt(2))
              = Ok(pre.sp % 256)
        /\ MappedRam_read_byte(mapped_ram, FetchedAt(1) + 256 * FetchedAt(2) + 1)
              = Ok(pre.sp \div 256)

\* What opcode 0x08 does as decoded: SP becomes the immediate read with the
\* first byte high, and no memory is written.
StoreStackPointerLoadsSp ==
    (RanFirst /\ FetchedAt(0) = 8) =>
        /\ op.res.ok
        /\ sp = 256 * FetchedAt(1) + FetchedAt(2)
        /\ mapped_ram = pre.mapped_ram

\* The documented operand table: z = 0..7 selects B, C, D, E, H, L, (HL), A.
OperandTable == <<B, C, D, E, H, L, HL, A>>

\* The byte held by the operand z selects, in an aggregate.
OperandByte(cpu, z) ==
    IF z = 6
    THEN MappedRam_read_byte(cpu.mapped_ram, read_double_named(cpu.register_bank, HL)).value
    ELSE cpu.register_bank[OperandTable[z + 1]]

\* The last step ran a CB-prefixed rotate or shift (y # 6, which is SWAP) to
\* its end.
RanShift ==
    /\ RanFirst /\ op.res.ok
    /\ FetchedAt(0) = 203
    /\ FetchedAt(1) < 64 /\ FieldY(FetchedAt(1)) # 6

\* The byte the shift computed: the one its first change carries.
ShiftResult == compute_change(op.decoded.value, op.at_execute).value.changes[1].value

\* C18: a CB-prefixed shift/rotate writes its result back to the operand
\* selected by z, leaves A untouched when the operand is not A, and sets Z to
\* (result = 0) when the operand is not A.
C18_ShiftWritesBackToOperand ==
    (RanShift /\ FetchedAt(1) % 8 # 7) =>
        /\ OperandByte(Cpu, FetchedAt(1) % 8) = ShiftResult
        /\ register_bank[A] = pre.register_bank[A]
        /\ read_bit_flag(register_bank, Zero) = (ShiftResult = 0)
        /\ ~read_bit_flag(register_bank, Subtraction)
        /\ ~read_bit_flag(register_bank, HalfCarry)

\* What the shifts do as decoded: whatever the operand, the result lands in A,
\* the operand keeps its byte, and Z is cleared.
ShiftWritesAccumulator ==
    RanShift =>
        /\ register_bank[A] = ShiftResult
        /\ FetchedAt(1) % 8 # 7 =>
              OperandByte(Cpu, FetchedAt(1) % 8) = OperandByte(pre, FetchedAt(1) % 8)
        /\ ~read_bit_flag(register_bank, Zero)

\* The last step ran a byte load without post-update to its end.
RanByteLoad ==
    /\ RanFirst /\ op.res.ok
    /\ op.decoded.value.kind = "ByteLoadInstruction"
    /\ op.decoded.value.op.update.kind = "None"

\* The address a memory destination names, in the aggregate at entry.
DestinationAddress(dst, cpu) ==
    CASE dst.kind = "AddressImmediate" -> dst.address
      [] dst.kind = "AddressInRegister" -> read_double_named(cpu.register_bank, dst.reg)
      [] dst.kind = "OffsetAddressInRegister" ->
            (dst.base + cpu.register_bank[dst.offset]) % 65536

\* The destination holds value, and the registers and the memory of new are
\* those of old everywhere else.
OnlyDestinationChanged(dst, value, old, new) ==
    IF dst.kind = "SingleRegister"
    THEN /\ new.register_bank[dst.reg] = value
         /\ \A r \in (DOMAIN old.register_bank) \ {dst.reg} :
               new.register_bank[r] = old.register_bank[r]
         /\ new.mapped_ram = old.mapped_ram
    ELSE /\ MappedRam_read_byte(new.mapped_ram, DestinationAddress(dst, old)) = Ok(value)
         /\ new.register_bank = old.register_bank
         /\ SameExceptAt(old.mapped_ram, new.mapped_ram, {DestinationAddress(dst, old)})
         /\ \/ new.mapped_ram.mapped_io_registers = old.mapped_ram.mapped_io_registers
            \/ DestinationAddress(dst, old) = IO_REGISTERS_MAPPING_START + 64

\* C19: after a byte load without post-update, the destination holds the
\* value the source had at entry, and every other register, the four flags,
\* SP, PC, IME and every other memory byte are as they were at entry.
C19_ByteLoadFrame ==
    RanByteLoad =>
        /\ OnlyDestinationChanged(op.decoded.value.dst,
                                  ByteSource_read(op.decoded.value.src, op.at_execute).value,
                                  op.at_execute, Cpu)
        /\ sp = op.at_execute.sp
        /\ pc = op.at_execute.pc
        /\ ime = op.at_execute.ime

\* A load from a register holding a non-zero byte into a RAM byte that held
\* another value, with flags set in F.
C19_Witness ==
    /\ RanByteLoad
    /\ op.decoded.value.src.kind = "SingleRegister"
    /\ op.decoded.value.dst.kind = "AddressInRegister"
    /\ MappedRam_read_byte(mapped_ram, read_double_named(pre.register_bank, HL))
          # MappedRam_read_byte(pre.mapped_ram, read_double_named(pre.register_bank, HL))
    /\ MappedRam_read_byte(mapped_ram, read_double_named(pre.register_bank, HL)).value # 0
    /\ register_bank[F] \div 16 # 0

\* The last step ran LD (HL+),A, LD A,(HL+), LD (HL-),A or LD A,(HL-) to its
\* end.
RanLoadWithUpdate ==
    /\ RanFirst /\ op.res.ok
    /\ FetchedAt(0) \in {34, 42, 50, 58}

\* HL before the last step.
OldHl == read_double_named(pre.register_bank, HL)

\* C20: a byte load with post-update copies the byte using the HL held at
\* entry and leaves HL = old HL + 1 (0x22, 0x2A) or old HL - 1 (0x32, 0x3A)
\* mod 65536; the store forms write at the old HL.
C20_LoadWithUpdateMovesHl ==
    RanLoadWithUpdate =>
        /\ read_double_named(register_bank, HL)
              = (IF FetchedAt(0) \in {34, 42} THEN OldHl + 1 ELSE OldHl + 65535) % 65536
        /\ IF FetchedAt(0) \in {34, 50}
           THEN MappedRam_read_byte(mapped_ram, OldHl) = Ok(pre.register_bank[A])
           ELSE Ok(register_bank[A]) = MappedRam_read_byte(pre.mapped_ram, OldHl)

\* What the four opcodes do as decoded: the byte is copied through the HL
\* held at entry, and HL keeps its value.
LoadWithUpdateKeepsHl ==
    RanLoadWithUpdate =>
        /\ op.decoded.value.op.update.kind = "Some"
        /\ read_double_named(register_bank, HL) = OldHl
        /\ IF FetchedAt(0) \in {34, 50}
           THEN MappedRam_read_byte(mapped_ram, OldHl) = Ok(pre.register_bank[A])
           ELSE Ok(register_bank[A]) = MappedRam_read_byte(pre.mapped_ram, OldHl)

(***************************************************************************)
(* Calling the register bank directly.                                     *)
(***************************************************************************)
\* Indices in and out of range, and values with every nibble distinct.
ProbeSingleAddresses == 0..(SINGLE_REGISTER_BANK_SIZE + 1)
ProbeDoubleAddresses == 0..5
ProbeRegisterBytes == {0, 18, 52, 240, 255}
ProbeRegisterWords == {0, 4660, 43794, 255, 65280}

\* register_bank.read_single(address)
BankReadSingle(address) ==
    /\ Running
    /\ op' = [name |-> "read_single", address |-> address, value |-> 0,
              res |-> read_single(register_bank, address)]
    /\ Record
    /\ UNCHANGED io_registers
    /\ UNCHANGED <<register_bank, mapped_ram, pc, sp, ime, prev>>

\* register_bank.write_single(address, value)
BankWriteSingle(address, value) ==
    /\ Running
    /\ Bind(write_single(register_bank, address, value), LAMBDA w :
           /\ register_bank' = w.bank
           /\ op' = [name |-> "write_single", address |-> address, value |-> value,
                     res |-> w.res])
    /\ Record
    /\ UNCHANGED io_registers
    /\ UNCHANGED <<mapped_ram, pc, sp, ime, prev>>

\* register_bank.read_double(address)
BankReadDouble(address) ==
    /\ Running
    /\ op' = [name |-> "read_double", address |-> address, value |-> 0,
              res |-> read_double(register_bank, address)]
    /\ Record
    /\ UNCHANGED io_registers
    /\ UNCHANGED <<register_bank, mapped_ram, pc, sp, ime, prev>>

\* register_bank.write_double(address, value)
BankWriteDouble(address, value) ==
    /\ Running
    /\ Bind(write_double(register_bank, address, value), LAMBDA w :
           /\ register_bank' = w.bank
           /\ op' = [name |-> "write_double", address |-> address, value |-> value,
                     res |-> w.res])
    /\ Record
    /\ UNCHANGED io_registers
    /\ UNCHANGED <<mapped_ram, pc, sp, ime, prev>>

\* register_bank.write_bit_flag(flag, bit)
BankWriteBitFlag(flag, bit) ==
    /\ Running
    /\ register_bank' = write_bit_flag(register_bank, flag, bit)
    /\ op' = [name |-> "write_bit_flag", address |-> flag, value |-> 0, res |-> Ok(0)]
    /\ Record
    /\ UNCHANGED io_registers
    /\ UNCHANGED <<mapped_ram, pc, sp, ime, prev>>

InitBank ==
    /\ register_bank = RegisterBank_new
    /\ mapped_ram = MappedRam_new([a \in 0..(BOOTSTRAP_RAM_SIZE - 1) |-> 0])
    /\ pc = PC_START
    /\ sp = SP_START
    /\ ime = TRUE
    /\ pre = Cpu_new([a \in 0..(BOOTSTRAP_RAM_SIZE - 1) |-> 0])
    /\ op = NoOp
    /\ prev = [op |-> NoOp, pre |-> pre]
    /\ steps = 0
    /\ io_registers = IoRegistersMemoryMapping_default

NextBank ==
    \/ \E address \in ProbeSingleAddresses : BankReadSingle(address)
    \/ \E address \in ProbeSingleAddresses, value \in ProbeRegisterBytes :
          BankWriteSingle(address, value)
    \/ \E address \in ProbeDoubleAddresses : BankReadDouble(address)
    \/ \E address \in ProbeDoubleAddresses, value \in ProbeRegisterWords :
          BankWriteDouble(address, value)
    \/ \E flag \in {Zero, Subtraction, HalfCarry, Carry}, bit \in BOOLEAN :
          BankWriteBitFlag(flag, bit)

SpecBank == InitBank /\ [][NextBank]_vars

(***************************************************************************)
(* Properties of the register bank.                                        *)
(***************************************************************************)
\* C21: in every reachable state the low four bits of register F are zero.
C21_FlagLowNibbleZero == register_bank[FLAG_REGISTER] % 16 = 0

\* What the writes do: F holds the byte written, low nibble included.
FlagRegisterHoldsByteWritten ==
    /\ (op.name = "write_single" /\ op.address = FLAG_REGISTER) =>
          register_bank[FLAG_REGISTER] = op.value
    /\ (op.name = "write_double" /\ op.address = AF) =>
          register_bank[FLAG_REGISTER] = op.value % 256
    /\ op.name = "write_bit_flag" =>
          register_bank[FLAG_REGISTER] % 16 = pre.register_bank[FLAG_REGISTER] % 16

\* The documented pairs: AF = (0, 5), BC = (1, 2), DE = (3, 4), HL = (6, 7).
PairTable == <<<<0, 5>>, <<1, 2>>, <<3, 4>>, <<6, 7>>>>

\* C22: for every pair index p in 0..3 and every 16-bit v, after
\* write_double(p, v) read_double(p) returns v, the high single holds
\* v div 256, the low single v mod 256, and the other six are unchanged.
C22_DoubleRoundTrip ==
    (op.name = "write_double" /\ op.address \in 0..3) =>
        /\ op.res.ok
        /\ read_double(register_bank, op.address) = Ok(op.value)
        /\ register_bank[PairTable[op.address + 1][1]] = op.value \div 256
        /\ register_bank[PairTable[op.address + 1][2]] = op.value % 256
        /\ \A r \in (0..7) \ {PairTable[op.address + 1][1], PairTable[op.address + 1][2]} :
              register_bank[r] = pre.register_bank[r]

\* 0xAB12 was written to DE over a bank whose other registers were non-zero.
C22_Witness ==
    /\ op.name = "write_double" /\ op.address = DE /\ op.value = 43794
    /\ register_bank[D] = 171 /\ register_bank[E] = 18
    /\ \E r \in (0..7) \ {D, E} : pre.register_bank[r] # 0

\* The last call was made with an index past the end of the bank.
OutOfRangeSingle ==
    op.name \in {"read_single", "write_single"} /\ op.address >= SINGLE_REGISTER_BANK_SIZE
OutOfRangeDouble ==
    op.name \in {"read_double", "write_double"} /\ op.address >= 4

\* C23: read_single and write_single with an index >= 8, and read_double and
\* write_double with a pair index >= 4, all fail with AddressOutOfRange and
\* leave every register unchanged.
C23_OutOfRangeIsAddressOutOfRange ==
    (OutOfRangeSingle \/ OutOfRangeDouble) =>
        /\ op.res = Err(AddressOutOfRange(op.address))
        /\ register_bank = pre.register_bank

\* C23, amended: the single accessors fail with AddressOutOfRange, the pair
\* accessors with InvalidDoubleRegister, each carrying the index; every
\* register is unchanged.
C23_OutOfRangeAmended ==
    /\ OutOfRangeSingle =>
          /\ op.res = Err(AddressOutOfRange(op.address))
          /\ register_bank = pre.register_bank
    /\ OutOfRangeDouble =>
          /\ op.res = Err(InvalidDoubleRegister(op.address))
          /\ register_bank = pre.register_bank

\* A write past the end of a bank that holds non-zero registers.
C23_Witness ==
    /\ op.name = "write_single" /\ op.address = SINGLE_REGISTER_BANK_SIZE
    /\ op.value # 0
    /\ ~op.res.ok
    /\ \E r \in 0..7 : register_bank[r] # 0

(***************************************************************************)
(* Calling the 8-bit ALU.                                                  *)
(***************************************************************************)
\* The operands the ALU is called with: every byte on the left, and on the
\* right the bytes around every nibble and byte boundary.
AluLefts == 0..255
AluRights == {0, 1, 7, 8, 15, 16, 17, 31, 32, 100, 127, 128, 129, 143, 144,
              200, 239, 240, 241, 254, 255}
              \cup {16 * k + 15 : k \in 0..15} \cup {16 * k : k \in 0..15}

\* The operands are held in the record of the last operation until the ALU
\* is called.
AluInput(left, right, carry) ==
    [name |-> "alu_input", left |-> left, right |-> right, carry |-> carry,
     res |-> Ok(0)]

\* add_u8(left, right) when there is no carry in, add_with_carry_u8 otherwise.
AluAdd ==
    /\ Running
    /\ op.name = "alu_input"
    /\ op' = [op EXCEPT !.name = "add",
                        !.res = Ok(IF op.carry
                                   THEN add_with_carry_u8(op.left, op.right, TRUE)
                                   ELSE add_u8(op.left, op.right))]
    /\ Record
    /\ UNCHANGED io_registers
    /\ UNCHANGED <<register_bank, mapped_ram, pc, sp, ime, prev>>

\* sub_u8(left, right) when there is no borrow in, sub_u8_with_carry otherwise.
AluSub ==
    /\ Running
    /\ op.name = "alu_input"
    /\ op' = [op EXCEPT !.name = "sub",
                        !.res = Ok(IF op.carry
                                   THEN sub_u8_with_carry(op.left, op.right, TRUE)
                                   ELSE sub_u8(op.left, op.right))]
    /\ Record
    /\ UNCHANGED io_registers
    /\ UNCHANGED <<register_bank, mapped_ram, pc, sp, ime, prev>>

InitAlu ==
    /\ register_bank = RegisterBank_new
    /\ mapped_ram = MappedRam_new([a \in 0..(BOOTSTRAP_RAM_SIZE - 1) |-> 0])
    /\ pc = PC_START
    /\ sp = SP_START
    /\ ime = TRUE
    /\ pre = Cpu_new([a \in 0..(BOOTSTRAP_RAM_SIZE - 1) |-> 0])
    /\ \E left \in AluLefts, right \in AluRights, carry \in BOOLEAN :
          op = AluInput(left, right, carry)
    /\ prev = [op |-> NoOp, pre |-> pre]
    /\ steps = 0
    /\ io_registers = IoRegistersMemoryMapping_default

NextAlu == AluAdd \/ AluSub

SpecAlu == InitAlu /\ [][NextAlu]_vars

\* C24: for all bytes a, b and carry-in c, the ALU add returns
\* result = (a+b+c) mod 256, carry = (a+b+c > 255),
\* half_carry = ((a mod 16) + (b mod 16) + c > 15), is_sub = false and
\* zero = (result = 0).
C24_AluAdd ==
    op.name = "add" =>
        /\ op.res.value.result = (op.left + op.right + carry_val(op.carry)) % 256
        /\ op.res.value.carry = (op.left + op.right + carry_val(op.carry) > 255)
        /\ op.res.value.half_carry
              = ((op.left % 16) + (op.right % 16) + carry_val(op.carry) > 15)
        /\ op.res.value.sub = FALSE
        /\ AluU8Result_zero(op.res.value)
              = ((op.left + op.right + carry_val(op.carry)) % 256 = 0)

\* An add whose carry out comes from the carry in alone: a + b = 255, c = 1.
C24_Witness ==
    /\ op.name = "add" /\ op.carry
    /\ op.left + op.right = 255 /\ op.left = 128
    /\ op.res.value.carry /\ op.res.value.result = 0

\* C25: for all bytes a, b and borrow-in c, the ALU sub returns
\* result = (a-b-c) mod 256, carry = (a < b+c),
\* half_carry = ((a mod 16) < (b mod 16) + c) and is_sub = true.
C25_AluSub ==
    op.name = "sub" =>
        /\ op.res.value.result = (op.left + 512 - op.right - carry_val(op.carry)) % 256
        /\ op.res.value.carry = (op.left < op.right + carry_val(op.carry))
        /\ op.res.value.half_carry
              = ((op.left % 16) < (op.right % 16) + carry_val(op.carry))
        /\ op.res.value.sub = TRUE

\* A sub whose borrows come from the borrow in alone: a = b, c = 1.
C25_Witness ==
    /\ op.name = "sub" /\ op.carry
    /\ op.left = op.right /\ op.left = 128
    /\ op.res.value.carry /\ op.res.value.half_carry /\ op.res.value.result = 255

(***************************************************************************)
(* Applying one shift of the accumulator several times in a row.           *)
(***************************************************************************)
MaxShifts == 8

\* The seven rotates and shifts, each from A to the accumulator.
ShiftInstructions ==
    {ByteShiftInstruction(read_from_acc, [kind |-> "Acc"], direction, type_) :
        direction \in {"Left", "Right"},
        type_ \in {"Rotate", "RotateWithCarry", "ArithmeticShift", "LogicalShift"}}
        \ {ByteShiftInstruction(read_from_acc, [kind |-> "Acc"], "Left", "LogicalShift")}

\* instruction.execute(cpu), again, with the instruction the run started with.
ShiftAgain ==
    /\ op.name \in {"shift_input", "shift"}
    /\ op.count < MaxShifts
    /\ op.res.ok
    /\ Bind(execute(op.instruction, Cpu), LAMBDA e :
           /\ SetCpu(e.cpu)
           /\ op' = [op EXCEPT !.name = "shift", !.count = @ + 1, !.res = e.res])
    /\ Record
    /\ UNCHANGED io_registers
    /\ UNCHANGED prev

\* Every byte in A, the carry flag clear or set; prev.pre keeps the aggregate
\* the run started with.
InitShift ==
    /\ \E a \in 0..255, carry \in BOOLEAN :
          register_bank = write_bit_flag([RegisterBank_new EXCEPT ![A] = a], Carry, carry)
    /\ mapped_ram = MappedRam_new([a \in 0..(BOOTSTRAP_RAM_SIZE - 1) |-> 0])
    /\ pc = PC_START
    /\ sp = SP_START
    /\ ime = TRUE
    /\ pre = Cpu
    /\ \E instruction \in ShiftInstructions :
          op = [name |-> "shift_input", instruction |-> instruction, count |-> 0,
                res |-> Ok(0)]
    /\ prev = [op |-> NoOp, pre |-> pre]
    /\ steps = 0
    /\ io_registers = IoRegistersMemoryMapping_default

NextShift == ShiftAgain

SpecShift == InitShift /\ [][NextShift]_vars

\* C26: a plain rotate, left or right, applied eight times in a row yields
\* the original byte; the logical right shift applied eight times yields 0.
C26_EightShifts ==
    (op.name = "shift" /\ op.count = 8) =>
        /\ op.instruction.op.type_ = "Rotate" =>
              register_bank[A] = prev.pre.register_bank[A]
        /\ op.instruction.op.type_ = "LogicalShift" => register_bank[A] = 0

\* Eight left rotates of 0xCA with the carry set at the start, the byte
\* having been another one after the seventh.
C26_Witness ==
    /\ op.name = "shift" /\ op.count = 8
    /\ op.instruction.op.type_ = "Rotate" /\ op.instruction.op.direction = "Left"
    /\ prev.pre.register_bank[A] = 202
    /\ read_bit_flag(prev.pre.register_bank, Carry)
    /\ pre.register_bank[A] = 101
    /\ register_bank[A] = 202

(***************************************************************************)
(* Properties of the decoder: the slots that hold no instruction.          *)
(***************************************************************************)
\* The documented invalid slots: 0xD3, 0xDB, 0xDD, 0xE3, 0xE4, 0xEB, 0xEC,
\* 0xED, 0xF4, 0xFC, 0xFD.
InvalidSlots == {211, 219, 221, 227, 228, 235, 236, 237, 244, 252, 253}

\* C27: fetch_and_decode returns InvalidOpcode(b) for exactly the unprefixed
\* bytes b of the invalid slots, the error carrying b; every other unprefixed
\* byte and every CB-prefixed byte decodes to an instruction when its operand
\* bytes are readable.
C27_InvalidSlots ==
    op.name = "fetch_and_decode" =>
        IF FetchedAt(0) \in InvalidSlots
        THEN /\ ~op.res.ok /\ ~op.res.panic
             /\ op.res.error.kind = "InvalidOpcode"
             /\ op.res.error.opcode = FetchedAt(0)
        ELSE op.res.ok

\* The fetch of 0xED, and nothing read after it.
C27_Witness ==
    /\ op.name = "fetch_and_decode"
    /\ FetchedAt(0) = 237
    /\ ~op.res.ok /\ op.res.error.opcode = 237
    /\ pc = (pre.pc + 1) % 65536

(***************************************************************************)
(* Properties of STOP and HALT.                                            *)
(***************************************************************************)
\* The last step decoded STOP (0x10) or HALT (0x76) and executed it.
RanStopOrHalt ==
    /\ op.name = "update_cpu" /\ op.decoded.ok
    /\ FetchedAt(0) \in {16, 118}
    /\ op.decoded.value.kind \in {"StopInstruction", "HaltInstruction"}

\* C28: executing a decoded STOP or HALT returns an error value to the caller
\* of execute, without aborting the process and without modifying any state.
C28_StopAndHaltReturnError ==
    RanStopOrHalt =>
        /\ ~op.res.ok
        /\ ~op.res.panic
        /\ Cpu = op.at_execute

\* What STOP and HALT do: execute panics, with the aggregate as it was.
StopAndHaltPanic ==
    (op.name = "update_cpu" /\ op.decoded.ok /\ FetchedAt(0) \in {16, 118}) =>
        /\ RanStopOrHalt
        /\ op.res.panic
        /\ Cpu = op.at_execute

(***************************************************************************)
(* Calling the I/O registers and ticking the divider.                      *)
(***************************************************************************)
\* Sub-addresses of the window: the serial bytes, the divider, the timer
\* counter, LCD control, and one that maps nothing.
ProbeIoReads == {1, 2, 4, 5, 64, 127}
ProbeIoWrites == {1, 4, 6, 64, 127}
ProbeIoBytes == {0, 90, 255}

\* Divider values: any value is reached by that many ticks.
ProbeDividers == {0, 255, 256, 4660, 65535}

\* io_registers.read_byte(address)
IoReadByte(address) ==
    /\ Running
    /\ op' = [name |-> "io_read_byte", address |-> address, value |-> 0,
              res |-> IoRegisters_read_byte(io_registers, address),
              before |-> io_registers]
    /\ pre' = Cpu
    /\ steps' = steps + 1
    /\ prev' = [op |-> op, pre |-> pre]
    /\ UNCHANGED <<register_bank, mapped_ram, pc, sp, ime, io_registers>>

\* io_registers.write_byte(address, value)
IoWriteByte(address, value) ==
    /\ Running
    /\ Bind(IoRegisters_write_byte(io_registers, address, value), LAMBDA w :
           /\ io_registers' = w.io
           /\ op' = [name |-> "io_write_byte", address |-> address, value |-> value,
                     res |-> w.res, before |-> io_registers])
    /\ pre' = Cpu
    /\ steps' = steps + 1
    /\ prev' = [op |-> op, pre |-> pre]
    /\ UNCHANGED <<register_bank, mapped_ram, pc, sp, ime>>

\* divider_register.tick()
DividerTick ==
    /\ Running
    /\ io_registers' = [io_registers EXCEPT
                           !.divider_register = DividerRegister_tick(@)]
    /\ op' = [name |-> "divider_tick", address |-> 0, value |-> 0, res |-> Ok(0),
              before |-> io_registers]
    /\ pre' = Cpu
    /\ steps' = steps + 1
    /\ prev' = [op |-> op, pre |-> pre]
    /\ UNCHANGED <<register_bank, mapped_ram, pc, sp, ime>>

InitIo ==
    /\ register_bank = RegisterBank_new
    /\ mapped_ram = MappedRam_new([a \in 0..(BOOTSTRAP_RAM_SIZE - 1) |-> 0])
    /\ pc = PC_START
    /\ sp = SP_START
    /\ ime = TRUE
    /\ pre = Cpu
    /\ op = NoOp
    /\ prev = [op |-> NoOp, pre |-> pre]
    /\ steps = 0
    /\ \E d \in ProbeDividers :
          io_registers = [IoRegistersMemoryMapping_default EXCEPT !.divider_register = d]

NextIo ==
    \/ \E address \in ProbeIoReads : IoReadByte(address)
    \/ \E address \in ProbeIoWrites, value \in ProbeIoBytes : IoWriteByte(address, value)
    \/ DividerTick

SpecIo == InitIo /\ [][NextIo]_vars

(***************************************************************************)
(* Properties of the divider.                                              *)
(***************************************************************************)
\* C29: after any number of divider ticks, a write of any byte to the
\* divider's address (sub-address 0x04 of the window) resets the divider, so
\* that the next read of that address returns 0, and changes no other I/O
\* register.
C29_DividerWriteResets ==
    /\ (op.name = "io_write_byte" /\ op.address = 4) =>
          /\ op.res.ok
          /\ IoRegisters_read_byte(io_registers, 4) = Ok(0)
          /\ io_registers = [op.before EXCEPT !.divider_register = 0]
    /\ (/\ op.name = "io_read_byte" /\ op.address = 4
        /\ prev.op.name = "io_write_byte" /\ prev.op.address = 4) =>
          op.res = Ok(0)

\* What the write does: the divider keeps its value, and the byte lands in
\* the first serial transfer register (sub-address 0x01).
DividerWriteLandsInSerialTransfer ==
    (op.name = "io_write_byte" /\ op.address = 4) =>
        /\ op.res.ok
        /\ io_registers.divider_register = op.before.divider_register
        /\ IoRegisters_read_byte(io_registers, 1) = Ok(op.value)
        /\ io_registers = [op.before EXCEPT
                              !.serial_transfer = ChipStore(@, 0, op.value)]

(***************************************************************************)
(* Ticking the timer and writing its registers through the I/O window.     *)
(***************************************************************************)
\* Sub-addresses of the timer modulo and the timer control.
ProbeTimerWrites == {6, 7}

\* Written bytes: counting at 16 and at 256 ticks, and stopped (bit 2 clear).
ProbeTimerBytes == {5, 7, 171}

ProbeTimerCounters == {0, 254, 255}
ProbeTimerModulos == {7, 255}

\* timer.tick()
TimerTick ==
    /\ Running
    /\ io_registers' = [io_registers EXCEPT !.timer = Timer_tick(@)]
    /\ op' = [name |-> "timer_tick", address |-> 0, value |-> 0, res |-> Ok(0),
              before |-> io_registers]
    /\ pre' = Cpu
    /\ steps' = steps + 1
    /\ prev' = [op |-> op, pre |-> pre]
    /\ UNCHANGED <<register_bank, mapped_ram, pc, sp, ime>>

\* Timers that a control write, a modulo write and some ticks lead to: the
\* sub-tick count is always below the selected divisor.
InitTimer ==
    /\ register_bank = RegisterBank_new
    /\ mapped_ram = MappedRam_new([a \in 0..(BOOTSTRAP_RAM_SIZE - 1) |-> 0])
    /\ pc = PC_START
    /\ sp = SP_START
    /\ ime = TRUE
    /\ pre = Cpu
    /\ op = NoOp
    /\ prev = [op |-> NoOp, pre |-> pre]
    /\ steps = 0
    /\ \E control \in 0..7, counter \in ProbeTimerCounters, modulo \in ProbeTimerModulos :
          \E ticks \in {0, InputClockSelect_freq(control % 4) - 2,
                        InputClockSelect_freq(control % 4) - 1} :
             io_registers =
                 [IoRegistersMemoryMapping_default EXCEPT
                     !.timer = [set_timer_control(Timer_default, control) EXCEPT
                                   !.counter = counter,
                                   !.modulo = modulo,
                                   !.ticks = ticks]]

NextTimer ==
    \/ TimerTick
    \/ \E address \in ProbeTimerWrites, value \in ProbeTimerBytes :
          IoWriteByte(address, value)

SpecTimer == InitTimer /\ [][NextTimer]_vars

(***************************************************************************)
(* Properties of the timer.                                                *)
(***************************************************************************)
\* The divisor that control bits 1..0 select.
DivisorTable == <<1024, 16, 64, 256>>

\* The control byte as read at sub-address 0x07 before the last call.
ControlBefore == IoRegisters_read_byte(op.before, 7).value

\* The tick brings the sub-tick count up to the selected divisor, with
\* control bit 2 set.
TickReachesDivisor ==
    /\ (ControlBefore \div 4) % 2 = 1
    /\ op.before.timer.ticks + 1 = DivisorTable[(ControlBefore % 4) + 1]

\* C30: on each tick the 8-bit counter changes if and only if control bit 2
\* is set and the tick brings the sub-tick count up to the divisor selected
\* by control bits 1..0 (1024, 16, 64, 256); when it changes it becomes
\* counter + 1, or the modulo value if it was 0xFF.
C30_CounterChangesIff ==
    op.name = "timer_tick" =>
        /\ IoRegisters_read_byte(io_registers, 7).value = ControlBefore
        /\ (io_registers.timer.counter # op.before.timer.counter) <=> TickReachesDivisor
        /\ (io_registers.timer.counter # op.before.timer.counter) =>
              io_registers.timer.counter =
                  IF op.before.timer.counter = 255
                  THEN op.before.timer.modulo
                  ELSE op.before.timer.counter + 1

\* C30, amended: a tick leaves the control register and the modulo as they
\* are; the 8-bit counter is rewritten exactly when control bit 2 is set and
\* the tick brings the sub-tick count up to the selected divisor; it is then
\* counter + 1, or the modulo value if it was 0xFF (which leaves a counter of
\* 0xFF at 0xFF when the modulo is 0xFF); on every other tick it keeps its
\* value.
C30_TimerTick ==
    op.name = "timer_tick" =>
        /\ IoRegisters_read_byte(io_registers, 7).value = ControlBefore
        /\ io_registers.timer.modulo = op.before.timer.modulo
        /\ io_registers.timer.counter =
              IF TickReachesDivisor
              THEN IF op.before.timer.counter = 255
                   THEN op.before.timer.modulo
                   ELSE op.before.timer.counter + 1
              ELSE op.before.timer.counter

C30_Witness ==
    /\ op.name = "timer_tick"
    /\ prev.op.name = "io_write_byte"
    /\ prev.op.address = 7
    /\ TickReachesDivisor
    /\ op.before.timer.counter = 255
    /\ io_registers.timer.counter = 7

(***************************************************************************)
(* Executing jumps, calls, returns and pops.                               *)
(***************************************************************************)
\* Stack pointers: inside work RAM (as in the unit tests); the reset value,
\* whose two bytes below are unmapped; one above boot ROM; the first byte
\* after work RAM; the last two bytes of the OAM; one byte into work RAM;
\* and the top of the address space.
FlowStackPointers ==
    {WORKING_RAM_START + 10, SP_START, 2, ECHO_RAM_START, OAM_START + OAM_SIZE - 2,
     WORKING_RAM_START + 1, 65534}

\* The PC of the unit tests of call.rs and return_.rs.
FlowPcs == {4660}
FlowTargets == {17185, 8}

FlowConditions == {Unconditional, TestFlag(Carry, TRUE), TestFlag(Zero, FALSE)}

FlowInstructions ==
    {CallInstruction(condition, address) : condition \in FlowConditions, address \in FlowTargets}
    \cup {ReturnInstruction(condition, FALSE) : condition \in FlowConditions}
    \cup {ReturnInstruction(Unconditional, TRUE)}
    \cup {JumpInstruction([kind |-> "FromSource",
                           source |-> [kind |-> "Immediate", value |-> 17185]], condition) :
             condition \in FlowConditions}
    \cup {JumpInstruction([kind |-> "RelativeToPc", delta |-> -3], TestFlag(Carry, FALSE))}
    \cup {PopInstruction([kind |-> "DoubleRegister", reg |-> DE])}

\* Register files with the flags the conditions test: none set, carry set,
\* zero and carry set.
FlowBanks ==
    {RegisterBank_new,
     write_bit_flag(RegisterBank_new, Carry, TRUE),
     write_bit_flag(write_bit_flag(RegisterBank_new, Carry, TRUE), Zero, TRUE)}

\* The aggregate of the unit tests of call.rs and return_.rs, with a return
\* address stored in work RAM, on each stack pointer and register file.
InitFlow ==
    /\ \E table \in BOOTSTRAP_DATA, bank \in FlowBanks, stack \in FlowStackPointers :
          /\ register_bank = bank
          /\ mapped_ram = write_double_byte(MappedRam_new(table),
                                            WORKING_RAM_START + 10, 17185).ram
          /\ pc \in FlowPcs
          /\ sp = stack
          /\ ime = FALSE
    /\ pre = Cpu
    /\ op = NoOp
    /\ prev = [op |-> NoOp, pre |-> pre]
    /\ steps = 0
    /\ io_registers = IoRegistersMemoryMapping_default

NextFlow == \E instruction \in FlowInstructions : Execute(instruction)

SpecFlow == InitFlow /\ [][NextFlow]_vars

(***************************************************************************)
(* Properties of jumps, calls and returns.                                 *)
(***************************************************************************)
Executed(kind) == op.name = "execute" /\ op.instruction.kind = kind

\* The last instruction was a call, a return or a jump whose condition held,
\* or did not hold, on the aggregate it started from.
Taken == BranchCondition_satisfied(op.instruction.condition, pre)

IsMemoryWrite(change) ==
    change.kind \in {"MemoryByteWriteChange", "MemoryDoubleByteWriteChange"}

\* C31: in every change list produced by compute_change, a memory-write
\* change is the last element of the list.
C31_MemoryWriteIsLast ==
    (op.name = "execute" /\ IsChangesetInstruction(op.instruction)) =>
        LET change == compute_change(op.instruction, pre)
        IN  (change.ok /\ change.value.kind = "ChangeList") =>
                \A i \in 1..Len(change.value.changes) :
                    IsMemoryWrite(change.value.changes[i]) =>
                        i = Len(change.value.changes)

\* What a taken call produces: three changes, the memory write in the middle.
CallWritesBeforePc ==
    (Executed("CallInstruction") /\ Taken) =>
        LET change == compute_change(op.instruction, pre)
        IN  /\ change.ok
            /\ Len(change.value.changes) = 3
            /\ change.value.changes[1].kind = "SpChange"
            /\ IsMemoryWrite(change.value.changes[2])
            /\ change.value.changes[3].kind = "PcChange"

\* C32: a taken call commits SP := SP - 2, then a little-endian write of the
\* return PC at the decremented SP, then PC := target: when execute succeeds
\* the return address is at old SP - 2 (low byte) and old SP - 1 (high
\* byte), nothing else in memory has changed, and PC is the target; when the
\* write fails SP has been decremented and PC is the old PC.
C32_CallCommitOrder ==
    (Executed("CallInstruction") /\ Taken /\ ~op.res.panic) =>
        LET new_sp == (pre.sp + 65536 - 2) % 65536
        IN  /\ sp = new_sp
            /\ register_bank = pre.register_bank
            /\ ime = pre.ime
            /\ IF op.res.ok
               THEN /\ pc = op.instruction.address
                    /\ MappedRam_read_byte(mapped_ram, new_sp) = Ok(pre.pc % 256)
                    /\ MappedRam_read_byte(mapped_ram, (new_sp + 1) % 65536)
                          = Ok(pre.pc \div 256)
                    /\ mapped_ram = write_double_byte(pre.mapped_ram, new_sp, pre.pc).ram
               ELSE /\ pc = pre.pc
                    /\ ~write_double_byte(pre.mapped_ram, new_sp, pre.pc).res.ok

\* A call from PC 0x1234 with SP 10 bytes into work RAM: 0x34 at SP - 2,
\* 0x12 at SP - 1.
C32_Witness ==
    /\ Executed("CallInstruction") /\ Taken /\ op.res.ok
    /\ pre.sp = WORKING_RAM_START + 10
    /\ sp = WORKING_RAM_START + 8
    /\ MappedRam_read_byte(mapped_ram, WORKING_RAM_START + 8) = Ok(52)
    /\ MappedRam_read_byte(mapped_ram, WORKING_RAM_START + 9) = Ok(18)
    /\ pc = 17185

\* C33: a taken call immediately followed by a taken return, both
\* succeeding, leaves PC at the PC the call started from (the one after its
\* operand bytes) and SP at its value before the call.
C33_CallThenReturn ==
    (/\ Executed("ReturnInstruction") /\ Taken /\ op.res.ok
     /\ prev.op.name = "execute" /\ prev.op.instruction.kind = "CallInstruction"
     /\ BranchCondition_satisfied(prev.op.instruction.condition, prev.pre)
     /\ prev.op.res.ok) =>
        /\ pc = prev.pre.pc
        /\ sp = prev.pre.sp
        /\ register_bank = prev.pre.register_bank

C33_Witness ==
    /\ Executed("ReturnInstruction") /\ Taken /\ op.res.ok
    /\ prev.op.name = "execute" /\ prev.op.instruction.kind = "CallInstruction"
    /\ prev.op.instruction.condition.kind = "TestFlag"
    /\ prev.op.res.ok
    /\ prev.pre.sp = ECHO_RAM_START
    /\ pre.pc = 8
    /\ pc = 4660 /\ sp = ECHO_RAM_START

\* C34: a conditional jump, call or return whose flag test fails succeeds
\* and leaves PC, SP, IME, registers, flags and memory as they were; it does
\* so on every stack pointer, those whose bytes cannot be read or written
\* included.
C34_FailedConditionChangesNothing ==
    (/\ op.name = "execute"
     /\ op.instruction.kind \in {"JumpInstruction", "CallInstruction", "ReturnInstruction"}
     /\ ~Taken) =>
        /\ op.res = Ok(0)
        /\ Cpu = pre

\* A return on a carry that is clear, with the stack pointer where no byte
\* can be read.
C34_Witness ==
    /\ Executed("ReturnInstruction") /\ ~Taken
    /\ pre.sp = 65534
    /\ ~read_double_byte(pre.mapped_ram, pre.sp).ok
    /\ op.res.ok /\ Cpu = pre

\* The unconditional return and the pop the stack pointer updates are compared on.
PlainReturn == ReturnInstruction(Unconditional, FALSE)
PlainPop == PopInstruction([kind |-> "DoubleRegister", reg |-> DE])

\* C40: when a taken return or a pop has computed its change the 16-bit read
\* at SP has succeeded, so SP <= 0xFFFD and the new SP is SP + 2 without
\* overflow; a return and a pop on the same aggregate compute the same SP.
C40_ReturnAndPopAddTwo ==
    (/\ op.name = "execute"
     /\ \/ op.instruction.kind = "PopInstruction"
        \/ op.instruction.kind = "ReturnInstruction" /\ Taken
     /\ compute_change(op.instruction, pre).ok) =>
        /\ read_double_byte(pre.mapped_ram, pre.sp).ok
        /\ pre.sp <= 65533
        /\ \A top \in {65534, 65535} : ~read_double_byte(pre.mapped_ram, top).ok
        /\ op.res.ok
        /\ sp = pre.sp + 2
        /\ LET ret == compute_change(PlainReturn, pre)
               pop == compute_change(PlainPop, pre)
           IN  /\ ret.ok /\ pop.ok
               /\ ret.value.changes[2] = SpChange(pre.sp + 2)
               /\ pop.value.changes[2] = ret.value.changes[2]

\* A pop from the last two bytes of the OAM, the highest pair that can be read.
C40_Witness ==
    /\ Executed("PopInstruction") /\ op.res.ok
    /\ pre.sp = OAM_START + OAM_SIZE - 2
    /\ sp = OAM_START + OAM_SIZE

(***************************************************************************)
(* Properties of the arithmetic right shift.                               *)
(***************************************************************************)
\* The last step was the first arithmetic right shift of a run on A.
RanArithmeticRight ==
    /\ op.name = "shift" /\ op.count = 1
    /\ op.instruction.op.type_ = "ArithmeticShift"
    /\ op.instruction.op.direction = "Right"

\* C35: for every byte a, the arithmetic right shift gives a result whose
\* bit 7 is bit 7 of a and whose bits 6..0 are bits 7..1 of a, and sets the
\* carry flag to bit 0 of a.
C35_ArithmeticRightKeepsSign ==
    RanArithmeticRight =>
        LET a == pre.register_bank[A]
        IN  /\ op.res.ok
            /\ register_bank[A] \div 128 = a \div 128
            /\ register_bank[A] % 128 = a \div 2
            /\ read_bit_flag(register_bank, Carry) = (a % 2 = 1)

\* What the shift does: bit 7 of the result is set when bit 4 or bit 6 of a
\* is (the mask is decimal 80), bits 6..0 are bits 7..1 of a, and the carry
\* is bit 0 of a.
ArithmeticRightTakesSignFromMask80 ==
    RanArithmeticRight =>
        LET a == pre.register_bank[A]
            sign == (a \div 16) % 2 = 1 \/ (a \div 64) % 2 = 1
        IN  /\ op.res.ok
            /\ register_bank[A] = ((a \div 2) % 128) + (IF sign THEN 128 ELSE 0)
            /\ read_bit_flag(register_bank, Carry) = (a % 2 = 1)

(***************************************************************************)
(* Executing the 16-bit add.                                               *)
(***************************************************************************)
\* Operands whose high bytes carry, half-carry, both or neither, with low
\* bytes that carry into the high byte or do not.
AddWords == {0, 255, 2048, 4095, 4096, 4660, 17185, 32767, 32768, 34816, 61440, 65535}

\* ADD HL,BC; ADD HL,SP; ADD HL,HL as the decoder builds them.
AddInstructions ==
    {[kind |-> "BinaryDoubleAddInstruction",
      left |-> [kind |-> "DoubleRegister", reg |-> HL],
      right |-> right,
      dst |-> [kind |-> "DoubleRegister", reg |-> HL]] :
        right \in {[kind |-> "DoubleRegister", reg |-> BC], [kind |-> "StackPointer"],
                   [kind |-> "DoubleRegister", reg |-> HL]}}

\* HL holds the left operand, BC and SP the right one; the zero flag is
\* clear or set.
InitAdd ==
    /\ \E l \in AddWords, r \in AddWords, zero \in BOOLEAN :
          /\ register_bank =
                write_bit_flag(
                    write_double_named(write_double_named(RegisterBank_new, HL, l), BC, r),
                    Zero, zero)
          /\ sp = r
    /\ mapped_ram = MappedRam_new([a \in 0..(BOOTSTRAP_RAM_SIZE - 1) |-> 0])
    /\ pc = PC_START
    /\ ime = TRUE
    /\ pre = Cpu
    /\ op = NoOp
    /\ prev = [op |-> NoOp, pre |-> pre]
    /\ steps = 0
    /\ io_registers = IoRegistersMemoryMapping_default

NextAdd == \E instruction \in AddInstructions : Execute(instruction)

SpecAdd == InitAdd /\ [][NextAdd]_vars

(***************************************************************************)
(* Properties of the 16-bit add.                                           *)
(***************************************************************************)
\* The operands of the last 16-bit add, read on the aggregate it started from.
AddLeft == DoubleByteSource_read(op.instruction.left, pre).value
AddRight == DoubleByteSource_read(op.instruction.right, pre).value

\* The flag change of an 8-bit add of two high bytes: Z kept, N cleared.
HighByteFlags(left_high, right_high) ==
    BitFlagsChange(None, Some(FALSE),
                   Some((left_high % 16) + (right_high % 16) > 15),
                   Some(left_high + right_high > 255))

\* C36: for operands l and r the 16-bit add emits destination = (l + r) mod
\* 65536 and a flag change in which H and C are the half-carry and carry of
\* the 8-bit add of l's high byte and r's high byte, N is cleared and Z is
\* preserved.
C36_DoubleAddFlags ==
    Executed("BinaryDoubleAddInstruction") =>
        LET change == compute_change(op.instruction, pre)
        IN  /\ change.ok
            /\ change.value.changes =
                  <<DoubleRegisterChange(HL, (AddLeft + AddRight) % 65536),
                    HighByteFlags(AddLeft \div 256, AddRight \div 256)>>

\* What the add emits: the sum, and the flags of the 8-bit add of l's high
\* byte with itself.
DoubleAddFlagsFromLeftTwice ==
    Executed("BinaryDoubleAddInstruction") =>
        LET change == compute_change(op.instruction, pre)
        IN  /\ change.ok
            /\ change.value.changes =
                  <<DoubleRegisterChange(HL, (AddLeft + AddRight) % 65536),
                    HighByteFlags(AddLeft \div 256, AddLeft \div 256)>>
            /\ op.res.ok
            /\ read_double_named(register_bank, HL) = (AddLeft + AddRight) % 65536
            /\ read_bit_flag(register_bank, Carry) = (AddLeft >= 32768)
            /\ read_bit_flag(register_bank, Zero) = read_bit_flag(pre.register_bank, Zero)

(***************************************************************************)
(* Executing an 8-bit add or subtract of two decimal bytes, then the       *)
(* decimal adjustment.                                                     *)
(***************************************************************************)
\* The bytes that hold two decimal digits, one per nibble.
Bcd(n) == (n \div 10) * 16 + (n % 10)
BcdBytes == {Bcd(n) : n \in 0..99}
Decimal(byte) == (byte \div 16) * 10 + (byte % 16)

\* ADD A,B and SUB A,B as the decoder builds them.
BcdArithmeticInstructions ==
    {[kind |-> "BinaryArithmeticInstruction",
      left |-> read_from_acc,
      right |-> [kind |-> "SingleRegister", reg |-> B],
      dst |-> write_to_acc,
      op |-> [type_ |-> type_, with_carry |-> FALSE]] : type_ \in {"Add", "Sub"}}

\* The add or subtract, on the operands the run started with.
BcdArithmetic(instruction) ==
    /\ op.name = "none"
    /\ Execute(instruction)

\* The decimal adjustment, right after the add or subtract.
BcdAdjust ==
    /\ op.name = "execute"
    /\ op.instruction.kind = "BinaryArithmeticInstruction"
    /\ Execute([kind |-> "DecimalAdjust"])

InitBcd ==
    /\ \E a \in BcdBytes, b \in BcdBytes :
          register_bank = [RegisterBank_new EXCEPT ![A] = a, ![B] = b]
    /\ mapped_ram = MappedRam_new([a \in 0..(BOOTSTRAP_RAM_SIZE - 1) |-> 0])
    /\ pc = PC_START
    /\ sp = SP_START
    /\ ime = TRUE
    /\ pre = Cpu
    /\ op = NoOp
    /\ prev = [op |-> NoOp, pre |-> pre]
    /\ steps = 0
    /\ io_registers = IoRegistersMemoryMapping_default

NextBcd ==
    \/ \E instruction \in BcdArithmeticInstructions : BcdArithmetic(instruction)
    \/ BcdAdjust

SpecBcd == InitBcd /\ [][NextBcd]_vars

(***************************************************************************)
(* Properties of the decimal adjustment.                                   *)
(***************************************************************************)
\* The decimal values of the operands the run started with.
BcdLeft == Decimal(prev.pre.register_bank[A])
BcdRight == Decimal(prev.pre.register_bank[B])

\* C37: for two bytes a, b holding two decimal digits each, the adjustment
\* after ADD a,b gives the decimal encoding of (a + b) mod 100 with C set
\* iff a + b >= 100; after SUB a,b it gives the encoding of (a - b) mod 100
\* with C set iff a < b; in both cases H is cleared and Z = (result = 0).
C37_DecimalAdjust ==
    Executed("DecimalAdjust") =>
        /\ op.res.ok
        /\ ~read_bit_flag(register_bank, HalfCarry)
        /\ read_bit_flag(register_bank, Zero) = (register_bank[A] = 0)
        /\ read_bit_flag(register_bank, Subtraction)
              = read_bit_flag(pre.register_bank, Subtraction)
        /\ IF prev.op.instruction.op.type_ = "Add"
           THEN /\ register_bank[A] = Bcd((BcdLeft + BcdRight) % 100)
                /\ read_bit_flag(register_bank, Carry) = (BcdLeft + BcdRight >= 100)
           ELSE /\ register_bank[A] = Bcd((BcdLeft + 100 - BcdRight) % 100)
                /\ read_bit_flag(register_bank, Carry) = (BcdLeft < BcdRight)

\* 0x21 - 0x38 adjusted to 0x83 with the carry set (21 - 38 = -17 = 83 - 100).
C37_Witness ==
    /\ Executed("DecimalAdjust")
    /\ prev.op.instruction.op.type_ = "Sub"
    /\ prev.pre.register_bank[A] = 33
    /\ prev.pre.register_bank[B] = 56
    /\ pre.register_bank[A] = 233
    /\ register_bank[A] = 131
    /\ read_bit_flag(register_bank, Carry)

(***************************************************************************)
(* Looking an address up in the two region tables.                         *)
(***************************************************************************)
\* The indexes of the entries of a table that map the address.
Matches(table, address) == {i \in 1..Len(table) : mapped_here(table[i], address)}

\* The last entry of a table that maps the address, 0 if none: the first
\* match of the table in reverse order.
LastMatch(table, address) ==
    IF Matches(table, address) = {} THEN 0
    ELSE CHOOSE i \in Matches(table, address) : \A j \in Matches(table, address) : j <= i

\* mapping_for_address(address) on the top-level table and
\* find_mapping(address) on the table of the I/O window.
Lookup ==
    /\ op.name = "lookup_input"
    /\ op' = [op EXCEPT !.name = "lookup",
                        !.top = mapping_for_address(op.address),
                        !.io = find_mapping(op.address)]
    /\ Record
    /\ UNCHANGED <<register_bank, mapped_ram, pc, sp, ime, prev, io_registers>>

\* Every 16-bit address.
InitLookup ==
    /\ register_bank = RegisterBank_new
    /\ mapped_ram = MappedRam_new([a \in 0..(BOOTSTRAP_RAM_SIZE - 1) |-> 0])
    /\ pc = PC_START
    /\ sp = SP_START
    /\ ime = TRUE
    /\ pre = Cpu
    /\ \E address \in 0..65535 :
          op = [name |-> "lookup_input", address |-> address, value |-> 0, res |-> Ok(0),
                top |-> 0, io |-> 0]
    /\ prev = [op |-> NoOp, pre |-> pre]
    /\ steps = 0
    /\ io_registers = IoRegistersMemoryMapping_default

NextLookup == Lookup

SpecLookup == InitLookup /\ [][NextLookup]_vars

(***************************************************************************)
(* Properties of the region tables.                                        *)
(***************************************************************************)
\* No two entries of the table share an address: one of them ends where the
\* other begins, or before.
Disjoint(table) ==
    \A i, j \in 1..Len(table) :
        i < j => \/ table[i].offset + table[i].size <= table[j].offset
                 \/ table[j].offset + table[j].size <= table[i].offset

\* C38: in the top-level table and in the table of the I/O window every
\* 16-bit address is matched by at most one entry, and the first-match
\* lookup returns the entry a lookup in the reverse order returns.
C38_TablesDoNotOverlap ==
    op.name = "lookup" =>
        /\ Cardinality(Matches(RAM_MAPPINGS, op.address)) <= 1
        /\ Cardinality(Matches(IO_REGISTER_MAPPING_ENTRIES, op.address)) <= 1
        /\ op.top = LastMatch(RAM_MAPPINGS, op.address)
        /\ op.io = LastMatch(IO_REGISTER_MAPPING_ENTRIES, op.address)
        /\ Disjoint(RAM_MAPPINGS)
        /\ Disjoint(IO_REGISTER_MAPPING_ENTRIES)

\* 0x004A is in the boot ROM in the top-level table and is the first byte of
\* the window position in the I/O table, the entry listed out of address
\* order.
C38_Witness ==
    /\ op.name = "lookup"
    /\ op.address = 74
    /\ RAM_MAPPINGS[op.top].region = "Bootstrap"
    /\ op.io = 10
    /\ IO_REGISTER_MAPPING_ENTRIES[op.io].region = "ScreenPosition"

(***************************************************************************)
(* Writing and reading the coordinate registers of the I/O window.         *)
(***************************************************************************)
\* The background scroll (0x42, 0x43) and the window position (0x4A, 0x4B).
CordBases == {66, 74}
CordAddresses == {base + k : base \in CordBases, k \in {0, 1}}
CordBytes == {34, 200}

\* Registers whose first byte has been written already.
InitCord ==
    /\ register_bank = RegisterBank_new
    /\ mapped_ram = MappedRam_new([a \in 0..(BOOTSTRAP_RAM_SIZE - 1) |-> 0])
    /\ pc = PC_START
    /\ sp = SP_START
    /\ ime = TRUE
    /\ pre = Cpu
    /\ op = NoOp
    /\ prev = [op |-> NoOp, pre |-> pre]
    /\ steps = 0
    /\ \E scroll_y \in {17, 200}, position_y \in {17, 200} :
          io_registers =
              IoRegisters_write_byte(
                  IoRegisters_write_byte(IoRegistersMemoryMapping_default, 66, scroll_y).io,
                  74, position_y).io

NextCord ==
    \/ \E address \in CordAddresses, value \in CordBytes : IoWriteByte(address, value)
    \/ \E address \in CordAddresses : IoReadByte(address)

SpecCord == InitCord /\ [][NextCord]_vars

(***************************************************************************)
(* Properties of the coordinate registers.                                 *)
(***************************************************************************)
\* The last call read a byte of a coordinate register right after a write
\* to a byte of the same register.
ReadAfterWrite(base, read, written) ==
    /\ op.name = "io_read_byte" /\ op.address = base + read
    /\ prev.op.name = "io_write_byte" /\ prev.op.address = base + written

\* The coordinate register at a base address, in given I/O registers.
CordAt(io, base) == IF base = 66 THEN io.screen_scroll ELSE io.screen_position

\* C39: the two bytes of a coordinate register are independent: after
\* writing y to sub-address 0 and x to sub-address 1, reading sub-address 0
\* returns y and reading sub-address 1 returns x.
C39_CordBytesIndependent ==
    \A base \in CordBases :
        /\ ReadAfterWrite(base, 0, 0) => op.res = Ok(prev.op.value)
        /\ ReadAfterWrite(base, 1, 1) => op.res = Ok(prev.op.value)
        /\ ReadAfterWrite(base, 0, 1) => op.res = Ok(CordAt(prev.op.before, base).y)
        /\ ReadAfterWrite(base, 1, 0) => op.res = Ok(CordAt(prev.op.before, base).x)

\* What the reads return: both sub-addresses give the byte written to
\* sub-address 0, although the write to sub-address 1 is stored.
CordReadsGiveFirstByte ==
    \A base \in CordBases :
        /\ (op.name = "io_read_byte" /\ op.address \in {base, base + 1}) =>
              op.res = Ok(CordAt(io_registers, base).y)
        /\ (op.name = "io_write_byte" /\ op.address = base + 1) =>
              /\ op.res.ok
              /\ CordAt(io_registers, base) = [CordAt(op.before, base) EXCEPT !.x = op.value]

=============================================================================
